---- MODULE Spec2Model ----
(***************************************************************************)
(* A model of the synapse cache (github.com/kolosys/synapse): a sharded,   *)
(* namespace-aware cache with exact and similarity lookup, TTL expiry and  *)
(* a pluggable eviction policy.  The cache is instantiated as              *)
(* Cache[int, string]; scores are tenths (10 stands for 1.0).              *)
(***************************************************************************)
EXTENDS Integers, Sequences, FiniteSets, TLC

VARIABLES options, similarity, shards, policy, now, gs, last, hist,
          ctxs, sweeper, readers, group, inflight

(* the context carriers made by the caller, the sweeper goroutine of the   *)
(* TTL policy, the Gets that hold a shard's read lock, and the calls in    *)
(* flight with the locks they hold                                         *)
aux == <<ctxs, sweeper, readers, group, inflight>>

vars == <<options, similarity, shards, policy, now, gs, last, hist, aux>>

----------------------------------------------------------------------------
(* Bounds of the model *)

NumKeys == 3
MaxShards == 2
MaxTotalSize == 2
MaxTTL == 1
MaxTime == 3
MaxOps == 2
MaxSeqOps == 3
MaxFifoOps == 4
MaxPolicyOps == 5

Keys == 0..(NumKeys - 1)
Values == {"A", "B"}
Namespaces == {"", "a", "b"}
DefaultThreshold == 8
Thresholds == {0, 7}
Queries == {1, NumKeys + 1}
PolicyKinds == {"none", "lru"}

(* Zero values of the Go types the model uses *)
ZeroV == ""
ZeroK == 0
ZeroTime == 0
NilKey == 0 - 1

----------------------------------------------------------------------------
(* Key routing: fnv1a_64(fmt.Sprintf("%v", key)) mod len(shards).          *)
(* A 64-bit word is a sequence of 8 bytes, least significant first.        *)

RECURSIVE XorBits(_, _, _)
XorBits(a, b, n) ==
    IF n = 0 THEN 0
    ELSE (((a % 2) + (b % 2)) % 2) + 2 * XorBits(a \div 2, b \div 2, n - 1)

FnvOffsetBytes == <<37, 35, 34, 132, 228, 156, 242, 203>>
FnvPrimeBytes == <<179, 1, 0, 0, 0, 1, 0, 0>>

RECURSIVE ColumnSum(_, _, _)
ColumnSum(h, i, j) ==
    IF j > i THEN 0 ELSE (h[j] * FnvPrimeBytes[i - j + 1]) + ColumnSum(h, i, j + 1)

RECURSIVE CarryBytes(_, _, _)
CarryBytes(h, i, carry) ==
    IF i > 8 THEN <<>>
    ELSE LET c == ColumnSum(h, i, 1) + carry
         IN  <<c % 256>> \o CarryBytes(h, i + 1, c \div 256)

(* h * prime mod 2^64 *)
FnvMulPrime(h) == CarryBytes(h, 1, 0)

FnvStep(h, b) == FnvMulPrime([h EXCEPT ![1] = XorBits(@, b, 8)])

RECURSIVE FnvWrite(_, _, _)
FnvWrite(h, bytes, i) ==
    IF i > Len(bytes) THEN h ELSE FnvWrite(FnvStep(h, bytes[i]), bytes, i + 1)

RECURSIVE HashMod(_, _, _, _)
HashMod(h, i, r, n) ==
    IF i = 0 THEN r ELSE HashMod(h, i - 1, (r * 256 + h[i]) % n, n)

(* fmt.Sprintf("%v", key) for a non-negative int: its decimal digits *)
RECURSIVE keyToString(_)
keyToString(key) ==
    IF key < 10 THEN <<48 + key>>
    ELSE keyToString(key \div 10) \o <<48 + (key % 10)>>

(* h.Sum64() % n after h.Write([]byte(keyToString(key))) *)
fnvShard(key, n) == HashMod(FnvWrite(FnvOffsetBytes, keyToString(key), 1), 8, 0, n)

(* the routing of every key of the model, for every number of shards *)
Routing == [n \in 1..MaxShards |-> [key \in Keys |-> fnvShard(key, n)]]

(* index of the shard a key is routed to, for n shards *)
getShard(key, n) == Routing[n][key]

----------------------------------------------------------------------------
(* Entry (entry.go) *)

(* A newEntry that never sets an expiry time (drops `if ttl > 0`) *)
newEntryNoExpiry(key, value, ttl, namespace, t) ==
    [Key |-> key, Value |-> value, CreatedAt |-> t, AccessedAt |-> t,
     AccessCount |-> 0, ExpiresAt |-> ZeroTime, Namespace |-> namespace,
     Metadata |-> <<>>]

newEntry(key, value, ttl, namespace, t) ==
    [Key |-> key, Value |-> value, CreatedAt |-> t, AccessedAt |-> t,
     AccessCount |-> 0,
     ExpiresAt |-> IF ttl > 0 THEN t + ttl ELSE ZeroTime,
     Namespace |-> namespace, Metadata |-> <<>>]

(* An IsExpired that never reports expiry *)
IsExpiredNever(e, t) == FALSE

IsExpired(e, t) ==
    IF e.ExpiresAt = ZeroTime THEN FALSE ELSE t > e.ExpiresAt

(* A Touch that also clears the expiry *)
TouchUnexpire(e, t) ==
    [e EXCEPT !.AccessedAt = t, !.AccessCount = @ + 1, !.ExpiresAt = ZeroTime]

Touch(e, t) == [e EXCEPT !.AccessedAt = t, !.AccessCount = @ + 1]

----------------------------------------------------------------------------
(* Similarity functions a caller may bind (SimilarityFunc[int]); "nil" is  *)
(* the unset function pointer.  Scores are tenths in 0..10.                *)

Abs(x) == IF x < 0 THEN 0 - x ELSE x

(* 1.0 for equal keys, falling by 0.5 per unit of distance, never below 0 *)
SimNear(a, b) == IF 5 * Abs(a - b) >= 10 THEN 0 ELSE 10 - 5 * Abs(a - b)

(* 1.0 for equal keys, 0.7 for any two distinct keys *)
SimFlat(a, b) == IF a = b THEN 10 ELSE 7

SimilarityFuncs == {"near", "flat"}

Score(fn, a, b) == IF fn = "near" THEN SimNear(a, b) ELSE SimFlat(a, b)

----------------------------------------------------------------------------
(* LRU policy (eviction/lru.go): the list, front first.  The items map is  *)
(* the set of keys on the list.                                            *)

InSeq(seq, k) == \E i \in 1..Len(seq) : seq[i] = k

FirstIndex(seq, k) == CHOOSE i \in 1..Len(seq) : seq[i] = k /\ \A j \in 1..(i - 1) : seq[j] # k

(* a removal that leaves the slice as it was *)
RemoveFirstNothing(seq, k) == seq

(* append(s[:i], s[i+1:]...) for the first i with s[i] = k *)
RemoveFirst(seq, k) ==
    IF InSeq(seq, k)
    THEN SubSeq(seq, 1, FirstIndex(seq, k) - 1) \o SubSeq(seq, FirstIndex(seq, k) + 1, Len(seq))
    ELSE seq

(* An OnAccess that leaves the list as it was *)
LRUOnAccessNoMove(l, key) == l

LRUOnAccess(l, key) == IF InSeq(l, key) THEN <<key>> \o RemoveFirst(l, key) ELSE l

LRUOnAdd(l, key) == IF InSeq(l, key) THEN <<key>> \o RemoveFirst(l, key) ELSE <<key>> \o l

LRUOnRemove(l, key) == IF InSeq(l, key) THEN RemoveFirst(l, key) ELSE l

(* A SelectVictim that takes the front (most recent) of the list *)
LRUSelectVictimFront(l) ==
    IF Len(l) = 0 THEN [key |-> NilKey, ok |-> FALSE] ELSE [key |-> Head(l), ok |-> TRUE]

LRUSelectVictim(l) ==
    IF Len(l) = 0 THEN [key |-> NilKey, ok |-> FALSE]
    ELSE [key |-> l[Len(l)], ok |-> TRUE]

LRULen(l) == Len(l)

(* delete(m, k) on a Go map *)
(* A map delete that removes nothing *)
MapDeleteNothing(m, k) == m

MapDelete(m, k) == [x \in (DOMAIN m) \ {k} |-> m[x]]

(* TTL policy (eviction/ttl.go): items maps a key to its expiry time; the  *)
(* policy's own ttl is the argument of NewTTL.                             *)
TTLOnAccess(items, key, t) ==
    IF key \in DOMAIN items /\ t > items[key] THEN MapDelete(items, key) ELSE items

TTLOnAdd(items, ttl, key, createdAt) ==
    [k \in DOMAIN items \cup {key} |-> IF k = key THEN createdAt + ttl ELSE items[k]]

TTLOnRemove(items, key) == MapDelete(items, key)

(* SelectVictim ranges over the map: any expired key may come first *)
TTLSelectVictim(items, t) ==
    IF \E k \in DOMAIN items : t > items[k]
    THEN {[key |-> k, ok |-> TRUE] : k \in {x \in DOMAIN items : t > items[x]}}
    ELSE {[key |-> NilKey, ok |-> FALSE]}

TTLLen(items) == Cardinality(DOMAIN items)

(* cleanup, run by cleanupLoop on every tick of its ticker *)
TTLCleanupItems(items, t) == [k \in {x \in DOMAIN items : ~(t > items[x])} |-> items[k]]

(* The EvictionPolicy interface (eviction/policy.go), dispatched on the    *)
(* policy attached to the cache; p.kind = "none" is the nil interface.     *)

NewPolicy(kind) == [kind |-> kind, list |-> <<>>, items |-> <<>>, ttl |-> MaxTTL]

(* A policy that is not a CombinedPolicy: the LRU or the TTL policy *)
LeafOnAccess(p, key, t) ==
    IF p.kind = "lru" THEN [p EXCEPT !.list = LRUOnAccess(@, key)]
    ELSE IF p.kind = "ttl" THEN [p EXCEPT !.items = TTLOnAccess(@, key, t)]
    ELSE p

LeafOnAdd(p, key, createdAt) ==
    IF p.kind = "lru" THEN [p EXCEPT !.list = LRUOnAdd(@, key)]
    ELSE IF p.kind = "ttl" THEN [p EXCEPT !.items = TTLOnAdd(@, p.ttl, key, createdAt)]
    ELSE p

LeafOnRemove(p, key) ==
    IF p.kind = "lru" THEN [p EXCEPT !.list = LRUOnRemove(@, key)]
    ELSE IF p.kind = "ttl" THEN [p EXCEPT !.items = TTLOnRemove(@, key)]
    ELSE p

(* the results SelectVictim can return at time t *)
LeafSelectVictim(p, t) ==
    IF p.kind = "lru" THEN {LRUSelectVictim(p.list)}
    ELSE IF p.kind = "ttl" THEN TTLSelectVictim(p.items, t)
    ELSE {[key |-> NilKey, ok |-> FALSE]}

LeafLen(p) ==
    IF p.kind = "lru" THEN LRULen(p.list)
    ELSE IF p.kind = "ttl" THEN TTLLen(p.items)
    ELSE 0

(* CombinedPolicy (eviction/policy.go): policies is subs, and weights are  *)
(* the normalised weights, in hundredths; a sum of 0 gives NaN             *)
NaN == 0 - 1

RECURSIVE SumSeq(_)
SumSeq(ws) == IF Len(ws) = 0 THEN 0 ELSE Head(ws) + SumSeq(Tail(ws))

NewCombinedPolicy(policies, weights) ==
    [kind |-> "combined", subs |-> policies,
     weights |-> [i \in DOMAIN weights |->
                     IF SumSeq(weights) = 0 THEN NaN
                     ELSE (100 * weights[i]) \div SumSeq(weights)]]

(* An OnRemove that reaches sub-policy 0 only *)
CombinedOnRemoveFirst(subs, key) ==
    [i \in DOMAIN subs |-> IF i = 1 THEN LeafOnRemove(subs[i], key) ELSE subs[i]]

CombinedOnAccess(subs, key, t) == [i \in DOMAIN subs |-> LeafOnAccess(subs[i], key, t)]

CombinedOnAdd(subs, key, createdAt) ==
    [i \in DOMAIN subs |-> LeafOnAdd(subs[i], key, createdAt)]

CombinedOnRemove(subs, key) == [i \in DOMAIN subs |-> LeafOnRemove(subs[i], key)]

CombinedSelectVictim(subs, t) ==
    IF Len(subs) = 0 THEN {[key |-> NilKey, ok |-> FALSE]} ELSE LeafSelectVictim(subs[1], t)

CombinedLen(subs) == IF Len(subs) = 0 THEN 0 ELSE LeafLen(subs[1])

(* An OnAccess that no policy acts on *)
PolicyOnAccessNothing(p, key, t) == p

PolicyOnAccess(p, key, t) ==
    IF p.kind = "combined" THEN [p EXCEPT !.subs = CombinedOnAccess(@, key, t)]
    ELSE LeafOnAccess(p, key, t)

PolicyOnAdd(p, key, createdAt) ==
    IF p.kind = "combined" THEN [p EXCEPT !.subs = CombinedOnAdd(@, key, createdAt)]
    ELSE LeafOnAdd(p, key, createdAt)

PolicyOnRemove(p, key) ==
    IF p.kind = "combined" THEN [p EXCEPT !.subs = CombinedOnRemove(@, key)]
    ELSE LeafOnRemove(p, key)

(* the results SelectVictim can return at time t *)
PolicySelectVictim(p, t) ==
    IF p.kind = "combined" THEN CombinedSelectVictim(p.subs, t)
    ELSE LeafSelectVictim(p, t)

PolicyLen(p) == IF p.kind = "combined" THEN CombinedLen(p.subs) ELSE LeafLen(p)

(* one callback made on the policy, as logged by the step that made it *)
Call(fn, key) == [fn |-> fn, key |-> key]

----------------------------------------------------------------------------
(* Per-shard statistics (shardStats) *)

ZeroStats ==
    [hits |-> 0, misses |-> 0, sets |-> 0, deletes |-> 0, similarSearches |-> 0,
     similarHits |-> 0, evictions |-> 0, expired |-> 0]

recordHit(s) == IF options.EnableStats THEN [s EXCEPT !.stats.hits = @ + 1] ELSE s
recordMiss(s) == IF options.EnableStats THEN [s EXCEPT !.stats.misses = @ + 1] ELSE s
(* A recordSet without the `if s.enableStats` guard *)
recordSetAlways(s) == [s EXCEPT !.stats.sets = @ + 1]

recordSet(s) == IF options.EnableStats THEN [s EXCEPT !.stats.sets = @ + 1] ELSE s
recordDelete(s) == IF options.EnableStats THEN [s EXCEPT !.stats.deletes = @ + 1] ELSE s
recordSimilarSearch(s) ==
    IF options.EnableStats THEN [s EXCEPT !.stats.similarSearches = @ + 1] ELSE s
recordSimilarHit(s) ==
    IF options.EnableStats THEN [s EXCEPT !.stats.similarHits = @ + 1] ELSE s
recordEviction(s) == IF options.EnableStats THEN [s EXCEPT !.stats.evictions = @ + 1] ELSE s
recordExpired(s) == IF options.EnableStats THEN [s EXCEPT !.stats.expired = @ + 1] ELSE s

----------------------------------------------------------------------------
(* Construction (synapse.go New, shard.go newShard) *)

maxSizePerShard(o) ==
    IF o.MaxSize \div o.NumShards = 0 THEN 1 ELSE o.MaxSize \div o.NumShards

newShard == [data |-> <<>>, keys |-> <<>>, stats |-> ZeroStats]


----------------------------------------------------------------------------
(* Shard operations (shard.go).  Each takes the shard s, the shared policy *)
(* p, what the context shows (cancelled, namespace) and the clock t, and   *)
(* yields the shard and policy after the call, the call's result and the   *)
(* policy callbacks it made.                                               *)

(* A namespace check that lets every context through *)
NamespaceMismatchNever(namespace, entry) == FALSE

(* A namespace filter that also applies to the empty namespace *)
NamespaceMismatchStrict(namespace, entry) == entry.Namespace # namespace

NamespaceMismatch(namespace, entry) == namespace # "" /\ entry.Namespace # namespace

(* A get that removes the expired entry it finds *)
ShardGetPurge(s, p, cancelled, namespace, key, t) ==
    IF cancelled
    THEN [s |-> s, p |-> p, val |-> ZeroV, ok |-> FALSE, calls |-> <<>>]
    ELSE IF key \notin DOMAIN s.data
    THEN [s |-> recordMiss(s), p |-> p, val |-> ZeroV, ok |-> FALSE, calls |-> <<>>]
    ELSE IF NamespaceMismatch(namespace, s.data[key])
    THEN [s |-> recordMiss(s), p |-> p, val |-> ZeroV, ok |-> FALSE, calls |-> <<>>]
    ELSE IF IsExpired(s.data[key], t)
    THEN [s |-> recordMiss(recordExpired([s EXCEPT !.data = MapDelete(@, key),
                                                   !.keys = RemoveFirst(@, key)])),
          p |-> p, val |-> ZeroV, ok |-> FALSE, calls |-> <<>>]
    ELSE [s |-> recordHit([s EXCEPT !.data[key] = Touch(@, t)]),
          p |-> PolicyOnAccess(p, key, t),
          val |-> s.data[key].Value, ok |-> TRUE,
          calls |-> IF p.kind # "none" THEN <<Call("OnAccess", key)>> ELSE <<>>]

ShardGet(s, p, cancelled, namespace, key, t) ==
    IF cancelled
    THEN [s |-> s, p |-> p, val |-> ZeroV, ok |-> FALSE, calls |-> <<>>]
    ELSE IF key \notin DOMAIN s.data
    THEN [s |-> recordMiss(s), p |-> p, val |-> ZeroV, ok |-> FALSE, calls |-> <<>>]
    ELSE IF NamespaceMismatch(namespace, s.data[key])
    THEN [s |-> recordMiss(s), p |-> p, val |-> ZeroV, ok |-> FALSE, calls |-> <<>>]
    ELSE IF IsExpired(s.data[key], t)
    THEN [s |-> recordMiss(recordExpired(s)), p |-> p, val |-> ZeroV, ok |-> FALSE,
          calls |-> <<>>]
    ELSE [s |-> recordHit([s EXCEPT !.data[key] = Touch(@, t)]),
          p |-> PolicyOnAccess(p, key, t),
          val |-> s.data[key].Value, ok |-> TRUE,
          calls |-> IF p.kind # "none" THEN <<Call("OnAccess", key)>> ELSE <<>>]

(* evict: FIFO on the key list without a policy, else the policy's victim *)
(* v, the result of its SelectVictim call                                  *)
(* An evict whose fallback removes the newest key instead of the oldest *)
ShardEvictNewest(s, p, v) ==
    IF Len(s.keys) > 0
    THEN [s |-> recordEviction([s EXCEPT !.data = MapDelete(@, s.keys[Len(s.keys)]),
                                         !.keys = SubSeq(@, 1, Len(@) - 1)]),
          p |-> p, calls |-> <<>>]
    ELSE [s |-> s, p |-> p, calls |-> <<>>]

ShardEvict(s, p, v) ==
    IF p.kind = "none"
    THEN IF Len(s.keys) > 0
         THEN [s |-> recordEviction([s EXCEPT !.data = MapDelete(@, s.keys[1]),
                                              !.keys = Tail(@)]),
               p |-> p, calls |-> <<>>]
         ELSE [s |-> s, p |-> p, calls |-> <<>>]
    ELSE IF ~v.ok
    THEN [s |-> s, p |-> p, calls |-> <<Call("SelectVictim", NilKey)>>]
    ELSE [s |-> recordEviction([s EXCEPT !.data = MapDelete(@, v.key),
                                         !.keys = RemoveFirst(@, v.key)]),
          p |-> PolicyOnRemove(p, v.key),
          calls |-> <<Call("SelectVictim", NilKey), Call("OnRemove", v.key)>>]

(* A set that replaces the entry of a stored key by a new one *)
ShardSetReplace(s, p, cancelled, namespace, key, value, t, v) ==
    IF cancelled
    THEN [s |-> s, p |-> p, ok |-> FALSE, calls |-> <<>>]
    ELSE IF key \in DOMAIN s.data
    THEN [s |-> recordSet([s EXCEPT !.data[key] =
                               newEntry(key, value, options.TTL, namespace, t)]),
          p |-> PolicyOnAccess(p, key, t), ok |-> TRUE,
          calls |-> IF p.kind # "none" THEN <<Call("OnAccess", key)>> ELSE <<>>]
    ELSE LET full  == maxSizePerShard(options) > 0
                      /\ Cardinality(DOMAIN s.data) >= maxSizePerShard(options)
             ev    == IF full THEN ShardEvict(s, p, v) ELSE [s |-> s, p |-> p, calls |-> <<>>]
             entry == newEntry(key, value, options.TTL, namespace, t)
         IN  [s |-> recordSet([ev.s EXCEPT !.data = (key :> entry) @@ @,
                                           !.keys = Append(@, key)]),
              p |-> PolicyOnAdd(ev.p, key, t), ok |-> TRUE,
              calls |-> ev.calls \o
                        (IF p.kind # "none" THEN <<Call("OnAdd", key)>> ELSE <<>>)]

ShardSet(s, p, cancelled, namespace, key, value, t, v) ==
    IF cancelled
    THEN [s |-> s, p |-> p, ok |-> FALSE, calls |-> <<>>]
    ELSE IF key \in DOMAIN s.data
    THEN [s |-> recordSet([s EXCEPT !.data[key] = Touch([@ EXCEPT !.Value = value], t)]),
          p |-> PolicyOnAccess(p, key, t), ok |-> TRUE,
          calls |-> IF p.kind # "none" THEN <<Call("OnAccess", key)>> ELSE <<>>]
    ELSE LET full  == maxSizePerShard(options) > 0
                      /\ Cardinality(DOMAIN s.data) >= maxSizePerShard(options)
             ev    == IF full THEN ShardEvict(s, p, v) ELSE [s |-> s, p |-> p, calls |-> <<>>]
             entry == newEntry(key, value, options.TTL, namespace, t)
         IN  [s |-> recordSet([ev.s EXCEPT !.data = (key :> entry) @@ @,
                                           !.keys = Append(@, key)]),
              p |-> PolicyOnAdd(ev.p, key, t), ok |-> TRUE,
              calls |-> ev.calls \o
                        (IF p.kind # "none" THEN <<Call("OnAdd", key)>> ELSE <<>>)]

(* A delete that does not poll ctx.Done() *)
ShardDeleteNoPoll(s, p, cancelled, key) ==
    IF key \notin DOMAIN s.data
    THEN [s |-> s, p |-> p, ok |-> FALSE, calls |-> <<>>]
    ELSE [s |-> recordDelete([s EXCEPT !.data = MapDelete(@, key),
                                       !.keys = RemoveFirst(@, key)]),
          p |-> PolicyOnRemove(p, key), ok |-> TRUE,
          calls |-> IF p.kind # "none" THEN <<Call("OnRemove", key)>> ELSE <<>>]

ShardDelete(s, p, cancelled, key) ==
    IF cancelled
    THEN [s |-> s, p |-> p, ok |-> FALSE, calls |-> <<>>]
    ELSE IF key \notin DOMAIN s.data
    THEN [s |-> s, p |-> p, ok |-> FALSE, calls |-> <<>>]
    ELSE [s |-> recordDelete([s EXCEPT !.data = MapDelete(@, key),
                                       !.keys = RemoveFirst(@, key)]),
          p |-> PolicyOnRemove(p, key), ok |-> TRUE,
          calls |-> IF p.kind # "none" THEN <<Call("OnRemove", key)>> ELSE <<>>]

(* The result of a similarity scan: value, key, score, found *)
(* A check that takes the function as bound *)
HasSimilarityAlways == TRUE

(* `if s.similarity != nil` *)
HasSimilarity == similarity # "nil"

ZeroBest == [val |-> ZeroV, key |-> ZeroK, score |-> 0, found |-> FALSE]

NoCancel == 0 - 1

(* The loop of getSimilar from position i of the key list; polls counts    *)
(* the polls of ctx.Done() made so far in this call, and cancelAt is the   *)
(* poll at which the context is first seen cancelled (NoCancel: never).    *)
RECURSIVE ScanLoop(_, _, _, _, _, _, _, _)
ScanLoop(s, namespace, key, t, i, best, polls, cancelAt) ==
    IF i > Len(s.keys) THEN [best |-> best, cancelled |-> FALSE]
    ELSE LET k     == s.keys[i]
             entry == s.data[k]
         IN  IF NamespaceMismatch(namespace, entry)
             THEN ScanLoop(s, namespace, key, t, i + 1, best, polls, cancelAt)
             ELSE IF IsExpired(entry, t)
             THEN ScanLoop(s, namespace, key, t, i + 1, best, polls, cancelAt)
             ELSE IF polls = cancelAt
             THEN [best |-> ZeroBest, cancelled |-> TRUE]
             ELSE IF HasSimilarity
                     /\ Score(similarity, key, k) >= options.SimilarityThreshold
                     /\ Score(similarity, key, k) > best.score
             THEN ScanLoop(s, namespace, key, t, i + 1,
                           [val |-> entry.Value, key |-> k,
                            score |-> Score(similarity, key, k), found |-> TRUE],
                           polls + 1, cancelAt)
             ELSE ScanLoop(s, namespace, key, t, i + 1, best, polls + 1, cancelAt)

ShardGetSimilar(s, p, namespace, key, t, cancelAt) ==
    IF cancelAt = 0
    THEN [s |-> s, p |-> p, best |-> ZeroBest, cancelled |-> TRUE, calls |-> <<>>]
    ELSE LET r == ScanLoop(s, namespace, key, t, 1, ZeroBest, 1, cancelAt)
             s1 == recordSimilarSearch(s)
         IN  IF r.cancelled
             THEN [s |-> s1, p |-> p, best |-> ZeroBest, cancelled |-> TRUE, calls |-> <<>>]
             ELSE IF r.best.found
             THEN [s |-> recordSimilarHit([s1 EXCEPT !.data[r.best.key] = Touch(@, t)]),
                   p |-> PolicyOnAccess(p, r.best.key, t),
                   best |-> r.best, cancelled |-> FALSE,
                   calls |-> IF p.kind # "none"
                             THEN <<Call("OnAccess", r.best.key)>> ELSE <<>>]
             ELSE [s |-> s1, p |-> p, best |-> r.best, cancelled |-> FALSE, calls |-> <<>>]

----------------------------------------------------------------------------
(* The cache (synapse.go) *)

ShardIds == 0..(options.NumShards - 1)

(* Cache.Len: the sum of the shards' len() *)
RECURSIVE SumLen(_, _)
SumLen(sh, n) == IF n = 0 THEN 0 ELSE Cardinality(DOMAIN sh[n - 1].data) + SumLen(sh, n - 1)

CacheLen == SumLen(shards, options.NumShards)

(* Cache.Stats: zero when stats are disabled, else the sum over the shards *)
RECURSIVE SumStat(_, _, _)
SumStat(sh, n, f) == IF n = 0 THEN 0 ELSE sh[n - 1].stats[f] + SumStat(sh, n - 1, f)

CacheStats ==
    IF ~options.EnableStats THEN ZeroStats
    ELSE [f \in DOMAIN ZeroStats |-> SumStat(shards, options.NumShards, f)]

(* What the latest call was and what it returned.  ok is the bool result   *)
(* (found, deleted) or err = nil for Set; done is FALSE while a GetSimilar *)
(* has shards left to scan; clean tells that no other step ran during the  *)
(* GetSimilar that returned.                                               *)
(* Of a call whose context was seen cancelled only the operation and the   *)
(* result are kept: its arguments decide nothing.                          *)
LastRec(seq, op, key, val, ns, cancelled, ok, rval, rkey, score, calls, done, clean) ==
    IF cancelled
    THEN [seq |-> seq, op |-> op, key |-> ZeroK, val |-> ZeroV, ns |-> "",
          cancelled |-> TRUE, ok |-> ok, rval |-> rval, rkey |-> rkey,
          score |-> score, calls |-> calls, done |-> done, clean |-> clean, time |-> now]
    ELSE [seq |-> seq, op |-> op, key |-> key, val |-> val, ns |-> ns,
          cancelled |-> FALSE, ok |-> ok, rval |-> rval, rkey |-> rkey,
          score |-> score, calls |-> calls, done |-> done, clean |-> clean, time |-> now]

(* The GetSimilar in progress, between two shards *)
IdleSearch ==
    [active |-> FALSE, namespace |-> "", key |-> ZeroK, idx |-> 0,
     best |-> ZeroBest, clean |-> TRUE]

(* another step runs while a GetSimilar is between two shards *)
Disturb(g) == IF g.active THEN [g EXCEPT !.clean = FALSE] ELSE g

(* The calls made since construction, as long as all of them were Set     *)
(* calls that returned nil: valid turns FALSE with any other call.         *)
NoHist == [valid |-> FALSE, sets |-> <<>>]

----------------------------------------------------------------------------
(* Context carriers (context.go).  A carrier is a chain of nodes made by   *)
(* context.WithValue over context.Background(): carrier 0 is Background,   *)
(* carrier c > 0 is nodes[c].  A metadata node holds a reference md to a   *)
(* map of maps; mkey and mval remember the arguments that made the node.   *)

MaxCarriers == 3
MetaKeys == {"x", "y"}

NoCarriers == [nodes |-> <<>>, maps |-> <<>>]

NilMap == 0

(* ctx.Value(kind): the nearest node of that kind, 0 when there is none *)
RECURSIVE Value(_, _, _)
Value(cs, c, kind) ==
    IF c = 0 THEN 0
    ELSE IF cs.nodes[c].kind = kind THEN c
    ELSE Value(cs, cs.nodes[c].parent, kind)

GetNamespace(cs, c) ==
    LET n == Value(cs, c, "namespaceKey") IN IF n # 0 THEN cs.nodes[n].ns ELSE ""

getMetadata(cs, c) ==
    LET n == Value(cs, c, "metadataKey") IN IF n # 0 THEN cs.nodes[n].md ELSE NilMap

GetMetadata(cs, c, key) ==
    LET md == getMetadata(cs, c) IN
    IF md = NilMap THEN [val |-> ZeroV, ok |-> FALSE]
    ELSE IF key \in DOMAIN cs.maps[md] THEN [val |-> cs.maps[md][key], ok |-> TRUE]
    ELSE [val |-> ZeroV, ok |-> FALSE]

(* the map WithMetadata builds: a copy of the carrier's map, plus key *)
newMd(cs, c, key, value) ==
    LET md == getMetadata(cs, c)
        old == IF md = NilMap THEN <<>> ELSE cs.maps[md]
    IN [k \in (DOMAIN old) \cup {key} |-> IF k = key THEN value ELSE old[k]]

WithValue(c, kind, ns, md, mkey, mval) ==
    [parent |-> c, kind |-> kind, ns |-> ns, md |-> md, mkey |-> mkey, mval |-> mval]

(* WithMetadata that writes key into the carrier's own map when it has one *)
WithMetadataInPlace(c, key, value) ==
    /\ c \in 0..Len(ctxs.nodes)
    /\ Len(ctxs.nodes) < MaxCarriers
    /\ LET md == getMetadata(ctxs, c) IN
       IF md = NilMap
       THEN ctxs' = [nodes |-> Append(ctxs.nodes,
                                  WithValue(c, "metadataKey", "", Len(ctxs.maps) + 1,
                                            key, value)),
                     maps |-> Append(ctxs.maps, newMd(ctxs, c, key, value))]
       ELSE ctxs' = [nodes |-> Append(ctxs.nodes,
                                  WithValue(c, "metadataKey", "", md, key, value)),
                     maps |-> [ctxs.maps EXCEPT ![md] = newMd(ctxs, c, key, value)]]
    /\ UNCHANGED <<options, similarity, shards, policy, now, gs, last, hist,
                   sweeper, readers, group, inflight>>

(* WithMetadata(ctx, key, value): a new carrier over ctx with a new map *)
WithMetadata(c, key, value) ==
    /\ c \in 0..Len(ctxs.nodes)
    /\ Len(ctxs.nodes) < MaxCarriers
    /\ ctxs' = [nodes |-> Append(ctxs.nodes,
                              WithValue(c, "metadataKey", "", Len(ctxs.maps) + 1,
                                        key, value)),
                maps |-> Append(ctxs.maps, newMd(ctxs, c, key, value))]
    /\ UNCHANGED <<options, similarity, shards, policy, now, gs, last, hist,
                   sweeper, readers, group, inflight>>

(* WithNamespace(ctx, namespace): a new carrier over ctx *)
WithNamespace(c, namespace) ==
    /\ c \in 0..Len(ctxs.nodes)
    /\ Len(ctxs.nodes) < MaxCarriers
    /\ ctxs' = [ctxs EXCEPT !.nodes =
                    Append(@, WithValue(c, "namespaceKey", namespace, NilMap, "", ZeroV))]
    /\ UNCHANGED <<options, similarity, shards, policy, now, gs, last, hist,
                   sweeper, readers, group, inflight>>

----------------------------------------------------------------------------
(* Gets under the read lock of a shard (shard.go, get).  A reader is at    *)
(* "idle", or at "touch": it holds the read lock of the shard of its key,  *)
(* has found its entry and has loaded the entry's AccessCount (count).     *)
(* group remembers the Gets that overlapped since the lock was last free:  *)
(* the shards as they were then (snap) and each Get with its result (ops). *)

MaxProcs == 2
Procs == 1..MaxProcs

IdleReader == [pc |-> "idle", key |-> ZeroK, namespace |-> "", count |-> 0, slot |-> 0]

NoGroup == [active |-> FALSE, snap |-> <<>>, ops |-> <<>>]

(* A goroutine that is in no call of the cache.  A goroutine in a call op  *)
(* holds at most the lock of one shard (shard, in mode "r" or "w") and the *)
(* policy's mutex (pmode), and has the policy calls todo still to make     *)
(* before it unlocks the shard.  A Len or Stats call is at shard idx (and  *)
(* at counter at of its snapshot) with the running sums acc and stats;     *)
(* held are the totals the cache held since the Len call began and quiet   *)
(* tells that no Set or Delete ran since.  ret is the call that returned   *)
(* last and n the number of calls begun.                                   *)
NoShard == 0 - 1
IdleCall == [op |-> "idle", shard |-> NoShard, mode |-> "", todo |-> <<>>, pmode |-> "",
             idx |-> 0, at |-> 1, acc |-> 0, stats |-> ZeroStats, held |-> {},
             quiet |-> TRUE, ret |-> "", n |-> 0]
NoCalls == [p \in Procs |-> IdleCall]

(* New: the state after construction with the options o *)
InitWith(configs) ==
    /\ options \in configs
    /\ similarity = "nil"
    /\ shards = [i \in 0..(options.NumShards - 1) |-> newShard]
    /\ policy = NewPolicy(options.EvictionPolicy)
    /\ now = 1
    /\ gs = IdleSearch
    /\ last = LastRec(0, "New", ZeroK, ZeroV, "", FALSE, TRUE, ZeroV, ZeroK, 0, <<>>,
                      TRUE, TRUE)
    /\ hist = [valid |-> TRUE, sets |-> <<>>]
    /\ ctxs = NoCarriers
    /\ sweeper = [running |-> policy.kind = "ttl" /\ policy.ttl > 0, closed |-> FALSE]
    /\ readers = [p \in Procs |-> IdleReader]
    /\ group = NoGroup
    /\ inflight = NoCalls

(* WithSimilarity binds fn on the cache and on every shard; it returns the *)
(* cache itself, so it leaves no result behind.                            *)
WithSimilarity(fn) ==
    /\ similarity' = fn
    /\ gs' = Disturb(gs)
    /\ hist' = NoHist
    /\ UNCHANGED <<options, shards, policy, now, last, aux>>

GetCore(key, namespace, cancelled) ==
    /\ \E i \in {getShard(key, options.NumShards)} :
         \E r \in {ShardGet(shards[i], policy, cancelled, namespace, key, now)} :
           /\ shards' = [shards EXCEPT ![i] = r.s]
           /\ policy' = r.p
           /\ last' = LastRec(last.seq + 1, "Get", key, ZeroV, namespace, cancelled,
                              r.ok, r.val, ZeroK, 0, r.calls, TRUE, TRUE)
    /\ gs' = Disturb(gs)
    /\ hist' = NoHist
    /\ UNCHANGED <<options, similarity, now>>

Get(key, namespace, cancelled) ==
    /\ GetCore(key, namespace, cancelled)
    /\ UNCHANGED aux

SetCore(key, value, namespace, cancelled) ==
    /\ \E i \in {getShard(key, options.NumShards)} :
         \E r \in {ShardSet(shards[i], policy, cancelled, namespace, key, value, now, v) :
                      v \in PolicySelectVictim(policy, now)} :
           /\ shards' = [shards EXCEPT ![i] = r.s]
           /\ policy' = r.p
           /\ last' = LastRec(last.seq + 1, "Set", key, value, namespace, cancelled,
                              r.ok, ZeroV, ZeroK, 0, r.calls, TRUE, TRUE)
           /\ hist' = IF hist.valid /\ r.ok
                      THEN [hist EXCEPT !.sets = Append(@, [key |-> key, val |-> value,
                                                           ns |-> namespace])]
                      ELSE NoHist
    /\ gs' = Disturb(gs)
    /\ UNCHANGED <<options, similarity, now>>

Set(key, value, namespace, cancelled) ==
    /\ SetCore(key, value, namespace, cancelled)
    /\ UNCHANGED aux

(* A Delete that applies the namespace filter of Get *)
DeleteFiltered(key, namespace, cancelled) ==
    /\ \E i \in {getShard(key, options.NumShards)} :
         \E r \in {IF key \in DOMAIN shards[i].data
                      /\ namespace # "" /\ shards[i].data[key].Namespace # namespace
                   THEN [s |-> shards[i], p |-> policy, ok |-> FALSE, calls |-> <<>>]
                   ELSE ShardDelete(shards[i], policy, cancelled, key)} :
           /\ shards' = [shards EXCEPT ![i] = r.s]
           /\ policy' = r.p
           /\ last' = LastRec(last.seq + 1, "Delete", key, ZeroV, namespace, cancelled,
                              r.ok, ZeroV, ZeroK, 0, r.calls, TRUE, TRUE)
    /\ gs' = Disturb(gs)
    /\ hist' = NoHist
    /\ UNCHANGED <<options, similarity, now, aux>>

DeleteCore(key, namespace, cancelled) ==
    /\ \E i \in {getShard(key, options.NumShards)} :
         \E r \in {ShardDelete(shards[i], policy, cancelled, key)} :
           /\ shards' = [shards EXCEPT ![i] = r.s]
           /\ policy' = r.p
           /\ last' = LastRec(last.seq + 1, "Delete", key, ZeroV, namespace, cancelled,
                              r.ok, ZeroV, ZeroK, 0, r.calls, TRUE, TRUE)
    /\ gs' = Disturb(gs)
    /\ hist' = NoHist
    /\ UNCHANGED <<options, similarity, now>>

Delete(key, namespace, cancelled) ==
    /\ DeleteCore(key, namespace, cancelled)
    /\ UNCHANGED aux

(* `if ok && score > bestScore` of Cache.GetSimilar *)
MergeBest(acc, best) == IF best.found /\ best.score > acc.score THEN best ELSE acc

(* One iteration of the loop of Cache.GetSimilar: the scan of shard idx    *)
(* under its read lock, the merge into the running best acc, and the poll  *)
(* of ctx.Done() that follows.  A context cancelled during the iteration   *)
(* (cancelAt # NoCancel) is seen by that poll at the latest.               *)
(* A GetSimilar whose cancellation branch returns the best match so far *)
GetSimilarStepPartial(key, namespace, idx, acc, clean, cancelAt) ==
    \E r \in {ShardGetSimilar(shards[idx], policy, namespace, key, now, cancelAt)} :
      \E merged \in {MergeBest(acc, r.best)} :
        LET seen     == cancelAt # NoCancel
            finished == seen \/ idx = options.NumShards - 1
        IN  /\ shards' = [shards EXCEPT ![idx] = r.s]
            /\ policy' = r.p
            /\ gs' = IF finished THEN IdleSearch
                     ELSE [active |-> TRUE, namespace |-> namespace, key |-> key,
                           idx |-> idx + 1, best |-> merged, clean |-> clean]
            /\ last' = IF finished
                       THEN LastRec(last.seq + 1, "GetSimilar", key, ZeroV, namespace,
                                    seen, merged.found, merged.val, merged.key,
                                    merged.score, r.calls, TRUE, clean)
                       ELSE LastRec(last.seq + 1, "GetSimilar", key, ZeroV, namespace,
                                    FALSE, FALSE, ZeroV, ZeroK, 0, r.calls, FALSE, clean)
            /\ hist' = NoHist
            /\ UNCHANGED <<options, similarity, now, aux>>

GetSimilarStepCore(key, namespace, idx, acc, clean, cancelAt) ==
    \E r \in {ShardGetSimilar(shards[idx], policy, namespace, key, now, cancelAt)} :
      \E merged \in {MergeBest(acc, r.best)} :
        LET seen     == cancelAt # NoCancel
            finished == seen \/ idx = options.NumShards - 1
            result   == IF seen THEN ZeroBest ELSE merged
        IN  /\ shards' = [shards EXCEPT ![idx] = r.s]
            /\ policy' = r.p
            /\ gs' = IF finished THEN IdleSearch
                     ELSE [active |-> TRUE, namespace |-> namespace, key |-> key,
                           idx |-> idx + 1, best |-> merged, clean |-> clean]
            /\ last' = IF finished
                       THEN LastRec(last.seq + 1, "GetSimilar", key, ZeroV, namespace,
                                    seen, result.found, result.val, result.key,
                                    result.score, r.calls, TRUE, clean)
                       ELSE LastRec(last.seq + 1, "GetSimilar", key, ZeroV, namespace,
                                    FALSE, FALSE, ZeroV, ZeroK, 0, r.calls, FALSE, clean)
            /\ hist' = NoHist
            /\ UNCHANGED <<options, similarity, now>>

GetSimilarStep(key, namespace, idx, acc, clean, cancelAt) ==
    /\ GetSimilarStepCore(key, namespace, idx, acc, clean, cancelAt)
    /\ UNCHANGED aux

(* GetSimilar is called and scans shard 0 *)
GetSimilarStart(key, namespace, cancelAt) ==
    /\ ~gs.active
    /\ cancelAt \in NoCancel..(Len(shards[0].keys) + 1)
    /\ GetSimilarStep(key, namespace, 0, ZeroBest, TRUE, cancelAt)

(* the GetSimilar in progress scans its next shard *)
GetSimilarNext(cancelAt) ==
    /\ gs.active
    /\ cancelAt \in NoCancel..(Len(shards[gs.idx].keys) + 1)
    /\ GetSimilarStep(gs.key, gs.namespace, gs.idx, gs.best, gs.clean, cancelAt)

(* the wall clock advances *)
Tick ==
    /\ now' = now + 1
    /\ gs' = Disturb(gs)
    /\ UNCHANGED <<options, similarity, shards, policy, last, hist, aux>>

Reading == {p \in Procs : readers[p].pc # "idle"}

(* the write lock of key's shard can be taken: no Get holds its read lock *)
NoReader(key) ==
    \A p \in Reading :
        getShard(readers[p].key, options.NumShards) # getShard(key, options.NumShards)

GroupOp(key, namespace, ok, val) == [key |-> key, ns |-> namespace, ok |-> ok, val |-> val]

(* the group after a Get was called: a new group when the lock was free *)
GroupWith(op) ==
    IF Reading = {}
    THEN [active |-> TRUE, snap |-> shards, ops |-> <<op>>]
    ELSE [group EXCEPT !.ops = Append(@, op)]

(* get, up to the load of entry.AccessCount in Touch: the reader takes the *)
(* read lock and looks its key up; on a miss it returns at once, on a hit  *)
(* it has written AccessedAt and read AccessCount.                         *)
GetBegin(p, key, namespace) ==
    /\ readers[p].pc = "idle"
    /\ \E i \in {getShard(key, options.NumShards)} :
         IF \/ key \notin DOMAIN shards[i].data
            \/ NamespaceMismatch(namespace, shards[i].data[key])
            \/ IsExpired(shards[i].data[key], now)
         THEN \E r \in {ShardGet(shards[i], policy, FALSE, namespace, key, now)} :
                /\ shards' = [shards EXCEPT ![i] = r.s]
                /\ policy' = r.p
                /\ last' = LastRec(last.seq + 1, "Get", key, ZeroV, namespace, FALSE,
                                   r.ok, r.val, ZeroK, 0, r.calls, TRUE, TRUE)
                /\ group' = GroupWith(GroupOp(key, namespace, r.ok, r.val))
                /\ readers' = readers
         ELSE /\ shards' = [shards EXCEPT ![i].data[key].AccessedAt = now]
              /\ readers' = [readers EXCEPT ![p] =
                                [pc |-> "touch", key |-> key, namespace |-> namespace,
                                 count |-> shards[i].data[key].AccessCount,
                                 slot |-> Len(GroupWith(GroupOp(key, namespace, FALSE,
                                                                ZeroV)).ops)]]
              /\ group' = GroupWith(GroupOp(key, namespace, FALSE, ZeroV))
              /\ UNCHANGED <<policy, last>>
    /\ hist' = NoHist
    /\ UNCHANGED <<options, similarity, now, gs, ctxs, sweeper, inflight>>

(* get, from the store of entry.AccessCount in Touch to its return: the    *)
(* reader writes the count it loaded plus one, notifies the policy,        *)
(* records the hit, returns the value and releases the read lock.          *)
GetTouch(p) ==
    /\ readers[p].pc = "touch"
    /\ \E key \in {readers[p].key} :
       \E i \in {getShard(key, options.NumShards)} :
         /\ shards' = [shards EXCEPT ![i] =
                          recordHit([@ EXCEPT !.data[key].AccessCount =
                                                  readers[p].count + 1])]
         /\ policy' = PolicyOnAccess(policy, key, now)
         /\ last' = LastRec(last.seq + 1, "Get", key, ZeroV, readers[p].namespace, FALSE,
                            TRUE, shards[i].data[key].Value, ZeroK, 0,
                            IF policy.kind # "none" THEN <<Call("OnAccess", key)>>
                            ELSE <<>>,
                            TRUE, TRUE)
         /\ group' = [group EXCEPT !.ops[readers[p].slot] =
                          GroupOp(key, readers[p].namespace, TRUE,
                                  shards[i].data[key].Value)]
    /\ readers' = [readers EXCEPT ![p] = IdleReader]
    /\ UNCHANGED <<options, similarity, now, gs, hist, ctxs, sweeper, inflight>>

(* a sweep that needs no running cleanupLoop *)
TTLCleanupAfterExit ==
    /\ policy.kind = "ttl"
    /\ policy' = [policy EXCEPT !.items = TTLCleanupItems(@, now)]
    /\ UNCHANGED <<options, similarity, shards, now, gs, last, hist, aux>>

(* cleanupLoop's ticker fires: the TTL policy forgets its expired keys *)
TTLCleanup ==
    /\ sweeper.running
    /\ policy' = [policy EXCEPT !.items = TTLCleanupItems(@, now)]
    /\ UNCHANGED <<options, similarity, shards, now, gs, last, hist, aux>>

(* Close() on the TTL policy: close(t.cleanupDone).  A second Close would  *)
(* panic, so it is called once.                                            *)
Close ==
    /\ policy.kind = "ttl"
    /\ ~sweeper.closed
    /\ sweeper' = [sweeper EXCEPT !.closed = TRUE]
    /\ UNCHANGED <<options, similarity, shards, policy, now, gs, last, hist,
                   ctxs, readers, group, inflight>>

(* cleanupLoop's select takes <-t.cleanupDone and returns *)
cleanupLoopExit ==
    /\ sweeper.running
    /\ sweeper.closed
    /\ sweeper' = [sweeper EXCEPT !.running = FALSE]
    /\ UNCHANGED <<options, similarity, shards, policy, now, gs, last, hist,
                   ctxs, readers, group, inflight>>

(* A call made on the eviction policy itself, by its owner: last.calls     *)
(* then holds every OnAdd, OnAccess and OnRemove made so far.              *)
PolicyCall(fn, key, p) ==
    /\ policy' = p
    /\ last' = LastRec(last.seq + 1, fn, key, ZeroV, "", FALSE, TRUE, ZeroV, ZeroK, 0,
                       Append(last.calls, Call(fn, key)), TRUE, TRUE)
    /\ hist' = NoHist
    /\ UNCHANGED <<options, similarity, shards, now, gs, aux>>

OnAdd(key) == PolicyCall("OnAdd", key, PolicyOnAdd(policy, key, now))

OnAccess(key) == PolicyCall("OnAccess", key, PolicyOnAccess(policy, key, now))

OnRemove(key) == PolicyCall("OnRemove", key, PolicyOnRemove(policy, key))

(* SelectVictim returns (rkey, ok) *)
SelectVictim ==
    /\ \E v \in PolicySelectVictim(policy, now) :
         last' = LastRec(last.seq, "SelectVictim", ZeroK, ZeroV, "", FALSE, v.ok, ZeroV,
                         v.key, 0, last.calls, TRUE, TRUE)
    /\ hist' = NoHist
    /\ UNCHANGED <<options, similarity, shards, policy, now, gs, aux>>

----------------------------------------------------------------------------
(* Calls as goroutines that take and release locks: s.mu of a shard        *)
(* (shard.go) and mu of the policy (lru.go, ttl.go), both sync.RWMutex.    *)
(* A call takes effect when it takes the lock of its shard; the policy     *)
(* callbacks it makes under that lock each take and release the policy's   *)
(* mutex, SelectVictim for reading and the others for writing.             *)

others == <<ctxs, sweeper, readers, group>>

(* s.mu.RLock() and s.mu.Lock() on shard i can return *)
CanRLock(i) == \A q \in Procs : ~(inflight[q].shard = i /\ inflight[q].mode = "w")
CanLock(i) == \A q \in Procs : inflight[q].shard # i

(* mu.RLock() / mu.Lock() of the policy can return *)
PolicyMode(call) == IF call.fn = "SelectVictim" THEN "r" ELSE "w"
CanPolicy(m) ==
    IF m = "r" THEN \A q \in Procs : inflight[q].pmode # "w"
    ELSE \A q \in Procs : inflight[q].pmode = ""

(* goroutine p has taken the lock of shard i for the call op, which then   *)
(* ran up to its first policy callback; the Len calls in progress          *)
(* meanwhile see the cache hold a new total                                *)
Enter(p, op, i, m, begun) ==
    inflight' = [q \in Procs |->
                   IF q = p
                   THEN [inflight[p] EXCEPT !.op = op, !.shard = i, !.mode = m,
                                            !.todo = last'.calls, !.n = @ + begun]
                   ELSE IF inflight[q].op = "Len"
                   THEN [inflight[q] EXCEPT !.held = @ \cup {CacheLen'},
                                            !.quiet = @ /\ m = "r"]
                   ELSE inflight[q]]

CallGet(p, key) ==
    /\ inflight[p].op = "idle"
    /\ CanRLock(getShard(key, options.NumShards))
    /\ GetCore(key, "", FALSE)
    /\ Enter(p, "Get", getShard(key, options.NumShards), "r", 1)
    /\ UNCHANGED others

CallSet(p, key) ==
    /\ inflight[p].op = "idle"
    /\ CanLock(getShard(key, options.NumShards))
    /\ SetCore(key, "A", "", FALSE)
    /\ Enter(p, "Set", getShard(key, options.NumShards), "w", 1)
    /\ UNCHANGED others

CallDelete(p, key) ==
    /\ inflight[p].op = "idle"
    /\ CanLock(getShard(key, options.NumShards))
    /\ DeleteCore(key, "", FALSE)
    /\ Enter(p, "Delete", getShard(key, options.NumShards), "w", 1)
    /\ UNCHANGED others

(* GetSimilar is called and takes the read lock of shard 0, or goes on to  *)
(* its next shard                                                          *)
CallGetSimilar(p, key) ==
    \/ /\ \A q \in Procs : inflight[q].op # "GetSimilar"
       /\ inflight[p].op = "idle"
       /\ CanRLock(0)
       /\ GetSimilarStepCore(key, "", 0, ZeroBest, TRUE, NoCancel)
       /\ Enter(p, "GetSimilar", 0, "r", 1)
       /\ UNCHANGED others
    \/ /\ inflight[p].op = "GetSimilar"
       /\ inflight[p].shard = NoShard
       /\ gs.active
       /\ gs.key = key
       /\ CanRLock(gs.idx)
       /\ \E i \in {gs.idx} :
            /\ GetSimilarStepCore(gs.key, gs.namespace, i, gs.best, gs.clean, NoCancel)
            /\ Enter(p, "GetSimilar", i, "r", 0)
       /\ UNCHANGED others

(* A Len that reads len(s.data) of shard 0 for every shard *)
CallLenStale(p) ==
    /\ \/ inflight[p].op = "idle"
       \/ inflight[p].op = "Len" /\ inflight[p].shard = NoShard
    /\ \E i \in {IF inflight[p].op = "idle" THEN 0 ELSE inflight[p].idx} :
         /\ CanRLock(i)
         /\ inflight' =
              [inflight EXCEPT ![p] =
                 IF @.op = "idle"
                 THEN [IdleCall EXCEPT !.op = "Len", !.shard = i, !.mode = "r",
                                       !.acc = Cardinality(DOMAIN shards[0].data),
                                       !.held = {CacheLen}, !.n = inflight[p].n + 1]
                 ELSE [@ EXCEPT !.shard = i, !.mode = "r",
                                !.acc = @ + Cardinality(DOMAIN shards[0].data)]]
    /\ UNCHANGED <<options, similarity, shards, policy, now, gs, last, hist, others>>

(* Len is called, or goes on to its next shard: shard.len() takes the read *)
(* lock and reads len(s.data)                                              *)
CallLen(p) ==
    /\ \/ inflight[p].op = "idle"
       \/ inflight[p].op = "Len" /\ inflight[p].shard = NoShard
    /\ \E i \in {IF inflight[p].op = "idle" THEN 0 ELSE inflight[p].idx} :
         /\ CanRLock(i)
         /\ inflight' =
              [inflight EXCEPT ![p] =
                 IF @.op = "idle"
                 THEN [IdleCall EXCEPT !.op = "Len", !.shard = i, !.mode = "r",
                                       !.acc = Cardinality(DOMAIN shards[i].data),
                                       !.held = {CacheLen}, !.n = inflight[p].n + 1]
                 ELSE [@ EXCEPT !.shard = i, !.mode = "r",
                                !.acc = @ + Cardinality(DOMAIN shards[i].data)]]
    /\ UNCHANGED <<options, similarity, shards, policy, now, gs, last, hist, others>>

(* The counters in the order of the loads of shardStats.snapshot() *)
StatsFields ==
    <<"hits", "misses", "sets", "deletes", "similarSearches", "similarHits",
      "evictions", "expired">>

(* Stats is called, or makes its next atomic load: it returns a zero Stats *)
(* at once when stats are disabled                                         *)
CallStats(p) ==
    /\ inflight[p].op \in {"idle", "Stats"}
    /\ inflight' =
         [inflight EXCEPT ![p] =
            IF @.op = "idle" /\ ~options.EnableStats
            THEN [IdleCall EXCEPT !.ret = "Stats", !.n = inflight[p].n + 1]
            ELSE LET c    == IF @.op = "idle"
                             THEN [IdleCall EXCEPT !.op = "Stats", !.n = inflight[p].n + 1]
                             ELSE @
                     f    == StatsFields[c.at]
                     sum  == [c.stats EXCEPT ![f] = @ + shards[c.idx].stats[f]]
                     more == c.at < Len(StatsFields) \/ c.idx + 1 < options.NumShards
                 IN  [c EXCEPT !.stats = sum,
                               !.at = IF c.at < Len(StatsFields) THEN c.at + 1 ELSE 1,
                               !.idx = IF c.at < Len(StatsFields) THEN c.idx ELSE c.idx + 1,
                               !.op = IF more THEN "Stats" ELSE "idle",
                               !.ret = IF more THEN "" ELSE "Stats"]]
    /\ UNCHANGED <<options, similarity, shards, policy, now, gs, last, hist, others>>

(* the next policy callback of p's call takes the policy's mutex *)
PolicyLock(p) ==
    /\ inflight[p].todo # <<>>
    /\ inflight[p].pmode = ""
    /\ CanPolicy(PolicyMode(Head(inflight[p].todo)))
    /\ inflight' = [inflight EXCEPT ![p].pmode = PolicyMode(Head(inflight[p].todo))]
    /\ UNCHANGED <<options, similarity, shards, policy, now, gs, last, hist, others>>

(* the deferred mu.Unlock() / mu.RUnlock() of the policy callback *)
PolicyUnlock(p) ==
    /\ inflight[p].pmode # ""
    /\ inflight' = [inflight EXCEPT ![p].pmode = "", ![p].todo = Tail(@)]
    /\ UNCHANGED <<options, similarity, shards, policy, now, gs, last, hist, others>>

(* An unlock of the shard that does not wait for the policy callback *)
UnlockShardEarly(p) ==
    /\ inflight[p].shard # NoShard
    /\ inflight' = [inflight EXCEPT ![p].shard = NoShard, ![p].mode = "",
                                    ![p].ret = inflight[p].op, ![p].op = "idle"]
    /\ UNCHANGED <<options, similarity, shards, policy, now, gs, last, hist, others>>

(* the deferred s.mu.Unlock() / s.mu.RUnlock(): the call returns, or a     *)
(* GetSimilar or Len goes on to its next shard                             *)
UnlockShard(p) ==
    /\ inflight[p].shard # NoShard
    /\ inflight[p].todo = <<>>
    /\ inflight[p].pmode = ""
    /\ inflight' =
         [inflight EXCEPT ![p] =
            IF @.op = "GetSimilar" /\ gs.active
            THEN [@ EXCEPT !.shard = NoShard, !.mode = ""]
            ELSE IF @.op = "Len" /\ @.idx + 1 < options.NumShards
            THEN [@ EXCEPT !.shard = NoShard, !.mode = "", !.idx = @ + 1]
            ELSE [@ EXCEPT !.shard = NoShard, !.mode = "", !.ret = inflight[p].op,
                           !.op = "idle"]]
    /\ UNCHANGED <<options, similarity, shards, policy, now, gs, last, hist, others>>

----------------------------------------------------------------------------
(* Specifications.  Each is a family of configurations accepted by New and *)
(* a workload of calls; Budget bounds the number of calls.                 *)

Budget(maxOps) == last.seq < maxOps

ConfigsOf(sh, sz, thr, pol, ttl, st) ==
    [NumShards : sh, MaxSize : sz, SimilarityThreshold : thr, EvictionPolicy : pol,
     TTL : ttl, EnableStats : st]

(* Exact-match workloads while the clock advances *)
Configs ==
    ConfigsOf(1..MaxShards, 1..MaxTotalSize, {DefaultThreshold}, PolicyKinds,
              0..MaxTTL, BOOLEAN)

Init == InitWith(Configs)

Next ==
    \/ \E k \in Keys, ns \in Namespaces, c \in BOOLEAN : Budget(MaxOps) /\ Get(k, ns, c)
    \/ \E k \in Keys, v \in Values, ns \in Namespaces, c \in BOOLEAN :
           Budget(MaxOps) /\ Set(k, v, ns, c)
    \/ \E k \in Keys, ns \in Namespaces, c \in BOOLEAN : Budget(MaxOps) /\ Delete(k, ns, c)
    \/ now < MaxTime /\ Tick

Spec == Init /\ [][Next]_vars

(* Longer exact-match workloads within one reading of the clock, on caches *)
(* without TTL                                                             *)
SeqConfigs ==
    ConfigsOf(1..MaxShards, 1..MaxTotalSize, {DefaultThreshold}, PolicyKinds, {0}, {TRUE})

SeqInit == InitWith(SeqConfigs)

SeqNext ==
    \/ \E k \in Keys, ns \in Namespaces, c \in BOOLEAN : Budget(MaxSeqOps) /\ Get(k, ns, c)
    \/ \E k \in Keys, v \in Values, ns \in Namespaces, c \in BOOLEAN :
           Budget(MaxSeqOps) /\ Set(k, v, ns, c)
    \/ \E k \in Keys, ns \in Namespaces, c \in BOOLEAN :
           Budget(MaxSeqOps) /\ Delete(k, ns, c)

SpecSeq == SeqInit /\ [][SeqNext]_vars

(* Similarity workloads while the clock advances *)
SimConfigs ==
    ConfigsOf(1..MaxShards, {MaxTotalSize}, Thresholds, PolicyKinds, 0..MaxTTL, {TRUE})

SimInit == InitWith(SimConfigs)

SimNext ==
    \/ \E fn \in SimilarityFuncs : WithSimilarity(fn)
    \/ \E k \in Keys, v \in Values, ns \in Namespaces, c \in BOOLEAN :
           Budget(MaxOps) /\ Set(k, v, ns, c)
    \/ \E q \in Queries, ns \in Namespaces, ca \in NoCancel..(NumKeys + 1) :
           Budget(MaxOps) /\ GetSimilarStart(q, ns, ca)
    \/ \E ca \in NoCancel..(NumKeys + 1) : GetSimilarNext(ca)
    \/ now < MaxTime /\ Tick

SpecSim == SimInit /\ [][SimNext]_vars

(* Longer similarity workloads within one reading of the clock *)
SimSeqConfigs ==
    ConfigsOf(1..MaxShards, {MaxTotalSize}, Thresholds, PolicyKinds, {0}, {TRUE})

SimSeqInit == InitWith(SimSeqConfigs)

SimSeqNext ==
    \/ \E fn \in SimilarityFuncs : WithSimilarity(fn)
    \/ \E k \in Keys, v \in Values, ns \in Namespaces, c \in BOOLEAN :
           Budget(MaxSeqOps) /\ Set(k, v, ns, c)
    \/ \E q \in Queries, ns \in Namespaces, ca \in NoCancel..(NumKeys + 1) :
           Budget(MaxSeqOps) /\ GetSimilarStart(q, ns, ca)
    \/ \E ca \in NoCancel..(NumKeys + 1) : GetSimilarNext(ca)

SpecSimSeq == SimSeqInit /\ [][SimSeqNext]_vars

(* Every kind of call, cancelled contexts included, on caches with and    *)
(* without stats                                                           *)
AllConfigs ==
    ConfigsOf(1..MaxShards, {MaxTotalSize}, {0}, PolicyKinds, {0}, BOOLEAN)

AllInit == InitWith(AllConfigs)

AllNext ==
    \/ \E fn \in SimilarityFuncs : WithSimilarity(fn)
    \/ \E k \in Keys, ns \in {"", "a"}, c \in BOOLEAN : Budget(MaxSeqOps) /\ Get(k, ns, c)
    \/ \E k \in Keys, v \in Values, ns \in {"", "a"}, c \in BOOLEAN :
           Budget(MaxSeqOps) /\ Set(k, v, ns, c)
    \/ \E k \in Keys, ns \in {"", "a"}, c \in BOOLEAN :
           Budget(MaxSeqOps) /\ Delete(k, ns, c)
    \/ \E q \in Queries, ns \in {"", "a"}, ca \in NoCancel..1 :
           Budget(MaxSeqOps) /\ GetSimilarStart(q, ns, ca)
    \/ \E ca \in NoCancel..1 : GetSimilarNext(ca)

SpecAll == AllInit /\ [][AllNext]_vars

(* Caches whose eviction policy is one eviction.TTL instance, with its     *)
(* sweeper running, while the clock advances                               *)
TTLPolicyConfigs ==
    ConfigsOf(1..MaxShards, 1..MaxTotalSize, {DefaultThreshold}, {"ttl"}, 0..MaxTTL, {TRUE})

TTLPolicyInit == InitWith(TTLPolicyConfigs)

TTLPolicyNext ==
    \/ \E k \in Keys, ns \in {"", "a"}, c \in BOOLEAN : Budget(MaxSeqOps) /\ Get(k, ns, c)
    \/ \E k \in Keys, v \in Values, ns \in {"", "a"}, c \in BOOLEAN :
           Budget(MaxSeqOps) /\ Set(k, v, ns, c)
    \/ \E k \in Keys, c \in BOOLEAN : Budget(MaxSeqOps) /\ Delete(k, "", c)
    \/ now < MaxTime /\ Tick
    \/ TTLCleanup

SpecTTLPolicy == TTLPolicyInit /\ [][TTLPolicyNext]_vars

(* Caches without an eviction policy: reads, overwrites and deletes        *)
(* before a Set that finds its shard full                                  *)
FifoConfigs ==
    ConfigsOf(1..MaxShards, {MaxTotalSize}, {DefaultThreshold}, {"none"}, {0}, {TRUE})

FifoInit == InitWith(FifoConfigs)

FifoNext ==
    \/ \E k \in Keys : Budget(MaxFifoOps) /\ Get(k, "", FALSE)
    \/ \E k \in Keys, v \in Values : Budget(MaxFifoOps) /\ Set(k, v, "", FALSE)
    \/ \E k \in Keys : Budget(MaxFifoOps) /\ Delete(k, "", FALSE)
    \/ now < MaxTime /\ Tick

SpecFifo == FifoInit /\ [][FifoNext]_vars

(* Callers that derive context carriers and pass them to the cache *)
CtxConfigs ==
    ConfigsOf({1}, {MaxTotalSize}, {DefaultThreshold}, {"none"}, {0}, {FALSE})

CtxInit == InitWith(CtxConfigs)

Carriers == 0..Len(ctxs.nodes)

CtxNext ==
    \/ \E c \in Carriers, ns \in {"a", "b"} : WithNamespace(c, ns)
    \/ \E c \in Carriers, k \in MetaKeys, v \in Values : WithMetadata(c, k, v)
    \/ \E c \in Carriers, k \in Keys : Budget(MaxOps) /\ Get(k, GetNamespace(ctxs, c), FALSE)
    \/ \E c \in Carriers, k \in Keys :
           Budget(MaxOps) /\ Set(k, "A", GetNamespace(ctxs, c), FALSE)
    \/ \E c \in Carriers, k \in Keys :
           Budget(MaxOps) /\ Delete(k, GetNamespace(ctxs, c), FALSE)

SpecCtx == CtxInit /\ [][CtxNext]_vars

(* A TTL policy whose owner calls Close while the cache is in use.  The    *)
(* closed channel stays ready, so the loop's select takes it in the end.   *)
SweeperConfigs ==
    ConfigsOf({1}, {MaxTotalSize}, {DefaultThreshold}, {"ttl"}, {0}, {FALSE})

SweeperInit == InitWith(SweeperConfigs)

SweeperNext ==
    \/ \E k \in Keys : Budget(MaxSeqOps) /\ Get(k, "", FALSE)
    \/ \E k \in Keys : Budget(MaxSeqOps) /\ Set(k, "A", "", FALSE)
    \/ now < MaxTime /\ Tick
    \/ TTLCleanup
    \/ Close
    \/ cleanupLoopExit

SpecSweeper == SweeperInit /\ [][SweeperNext]_vars /\ WF_vars(cleanupLoopExit)

(* Every kind of call under the empty namespace, with and without expiry,  *)
(* while the clock advances                                                *)
MixedConfigs ==
    ConfigsOf(1..MaxShards, {MaxTotalSize}, {0}, PolicyKinds, 0..MaxTTL, {FALSE})

MixedInit == InitWith(MixedConfigs)

MixedNext ==
    \/ \E fn \in SimilarityFuncs : WithSimilarity(fn)
    \/ \E k \in Keys : Budget(MaxFifoOps) /\ Get(k, "", FALSE)
    \/ \E k \in Keys : Budget(MaxFifoOps) /\ Set(k, "A", "", FALSE)
    \/ \E k \in Keys : Budget(MaxFifoOps) /\ Delete(k, "", FALSE)
    \/ \E q \in Queries : Budget(MaxFifoOps) /\ GetSimilarStart(q, "", NoCancel)
    \/ GetSimilarNext(NoCancel)
    \/ now < MaxTime /\ Tick

SpecMixed == MixedInit /\ [][MixedNext]_vars

(* Gets that overlap under the read lock of one shard, between Sets and    *)
(* Deletes that wait for the write lock, within one reading of the clock   *)
ConcConfigs ==
    ConfigsOf({1}, {MaxTotalSize}, {DefaultThreshold}, PolicyKinds, {0}, {FALSE})

ConcInit == InitWith(ConcConfigs)

(* calls may still be made *)
ConcBudget == last.seq + Cardinality(Reading) < MaxFifoOps

ConcNext ==
    \/ \E p \in Procs, k \in Keys : ConcBudget /\ GetBegin(p, k, "")
    \/ \E p \in Procs : GetTouch(p)
    \/ \E k \in Keys : ConcBudget /\ NoReader(k) /\ Set(k, "A", "", FALSE)
    \/ \E k \in Keys : ConcBudget /\ NoReader(k) /\ Delete(k, "", FALSE)

SpecConc == ConcInit /\ [][ConcNext]_vars

(* The LRU policy alone, driven by its owner *)
LRUConfigs ==
    ConfigsOf({1}, {MaxTotalSize}, {DefaultThreshold}, {"lru"}, {0}, {FALSE})

LRUInit == InitWith(LRUConfigs)

LRUNext ==
    \/ \E k \in Keys : Budget(MaxPolicyOps) /\ OnAdd(k)
    \/ \E k \in Keys : Budget(MaxPolicyOps) /\ OnAccess(k)
    \/ \E k \in Keys : Budget(MaxPolicyOps) /\ OnRemove(k)
    \/ SelectVictim

SpecLRU == LRUInit /\ [][LRUNext]_vars

(* The TTL policy alone, driven by its owner while its sweeper runs and    *)
(* the clock advances                                                      *)
TTLDirectConfigs ==
    ConfigsOf({1}, {MaxTotalSize}, {DefaultThreshold}, {"ttl"}, {0}, {FALSE})

TTLDirectInit == InitWith(TTLDirectConfigs)

TTLDirectNext ==
    \/ \E k \in Keys : Budget(MaxSeqOps) /\ OnAdd(k)
    \/ \E k \in Keys : Budget(MaxSeqOps) /\ OnAccess(k)
    \/ \E k \in Keys : Budget(MaxSeqOps) /\ OnRemove(k)
    \/ SelectVictim
    \/ now < MaxTime /\ Tick
    \/ TTLCleanup

SpecTTLDirect == TTLDirectInit /\ [][TTLDirectNext]_vars

(* Caches whose policy is a CombinedPolicy over LRU and TTL policies, with *)
(* calls on the cache and calls made on the policy itself                  *)
CombinedConfigs ==
    ConfigsOf({1}, {MaxTotalSize}, {DefaultThreshold}, {"combined"}, {0}, {FALSE})

CombinedInit ==
    /\ options \in CombinedConfigs
    /\ similarity = "nil"
    /\ shards = [i \in 0..(options.NumShards - 1) |-> newShard]
    /\ policy \in {NewCombinedPolicy(ps, ws) :
                      ps \in {<<>>, <<NewPolicy("lru")>>, <<NewPolicy("ttl")>>,
                              <<NewPolicy("lru"), NewPolicy("ttl")>>,
                              <<NewPolicy("ttl"), NewPolicy("lru")>>},
                      ws \in {<<>>, <<0>>, <<1>>, <<0, 0>>, <<1, 3>>, <<3, 1>>}}
    /\ Len(policy.subs) = Len(policy.weights)
    /\ now = 1
    /\ gs = IdleSearch
    /\ last = LastRec(0, "New", ZeroK, ZeroV, "", FALSE, TRUE, ZeroV, ZeroK, 0, <<>>,
                      TRUE, TRUE)
    /\ hist = [valid |-> TRUE, sets |-> <<>>]
    /\ ctxs = NoCarriers
    /\ sweeper = [running |-> FALSE, closed |-> FALSE]
    /\ readers = [p \in Procs |-> IdleReader]
    /\ group = NoGroup
    /\ inflight = NoCalls

(* the ticker of the cleanupLoop of sub-policy i, a TTL policy, fires *)
SubCleanup(i) ==
    /\ policy.kind = "combined"
    /\ i \in DOMAIN policy.subs
    /\ policy.subs[i].kind = "ttl"
    /\ policy' = [policy EXCEPT !.subs[i].items = TTLCleanupItems(@, now)]
    /\ UNCHANGED <<options, similarity, shards, now, gs, last, hist, aux>>

CombinedNext ==
    \/ \E k \in Keys : Budget(MaxSeqOps) /\ Get(k, "", FALSE)
    \/ \E k \in Keys : Budget(MaxSeqOps) /\ Set(k, "A", "", FALSE)
    \/ \E k \in Keys : Budget(MaxSeqOps) /\ Delete(k, "", FALSE)
    \/ \E k \in Keys : Budget(MaxSeqOps) /\ OnAdd(k)
    \/ \E k \in Keys : Budget(MaxSeqOps) /\ OnAccess(k)
    \/ \E k \in Keys : Budget(MaxSeqOps) /\ OnRemove(k)
    \/ SelectVictim
    \/ now < MaxTime /\ Tick
    \/ \E i \in 1..2 : SubCleanup(i)

SpecCombined == CombinedInit /\ [][CombinedNext]_vars

(* Calls that overlap: each goroutine makes one call at a time, and a call *)
(* is a sequence of lock, unlock and load steps                            *)
MaxCalls == 3

LockConfigs ==
    ConfigsOf(1..MaxShards, {MaxTotalSize}, {0}, PolicyKinds, {0}, {FALSE})

LockInit == InitWith(LockConfigs)

(* fewer than max calls have begun so far *)
Budgeted(max) ==
    Cardinality({c \in Procs \X (1..max) : c[2] <= inflight[c[1]].n}) < max

MayCall(p) == Budgeted(MaxCalls) \/ inflight[p].op # "idle"

LockNext ==
    \/ /\ similarity = "nil"
       /\ \A p \in Procs : inflight[p].op = "idle"
       /\ WithSimilarity("near")
    \/ \E p \in Procs, k \in Keys : MayCall(p) /\ CallGet(p, k)
    \/ \E p \in Procs, k \in Keys : MayCall(p) /\ CallSet(p, k)
    \/ \E p \in Procs, k \in Keys : MayCall(p) /\ CallDelete(p, k)
    \/ \E p \in Procs, k \in Queries : MayCall(p) /\ CallGetSimilar(p, k)
    \/ \E p \in Procs : MayCall(p) /\ CallLen(p)
    \/ \E p \in Procs : MayCall(p) /\ CallStats(p)
    \/ \E p \in Procs : PolicyLock(p)
    \/ \E p \in Procs : PolicyUnlock(p)
    \/ \E p \in Procs : UnlockShard(p)

SpecLocks == LockInit /\ [][LockNext]_vars

(* the step a call in progress takes next, when the lock it needs is free *)
Proceed(p) ==
    /\ inflight[p].op # "idle"
    /\ \/ \E k \in Queries : CallGetSimilar(p, k)
       \/ CallLen(p)
       \/ CallStats(p)
       \/ PolicyLock(p)
       \/ PolicyUnlock(p)
       \/ UnlockShard(p)

(* The same calls under a scheduler that lets every goroutine run *)
SpecLocksFair == SpecLocks /\ \A p \in Procs : WF_vars(Proceed(p))

(* Len calls that overlap Sets and Deletes *)
MaxLenCalls == 4

LenConfigs ==
    ConfigsOf(1..MaxShards, {MaxTotalSize}, {DefaultThreshold}, PolicyKinds, {0}, {FALSE})

LenInit == InitWith(LenConfigs)

LenNext ==
    \/ \E p \in Procs, k \in Keys : Budgeted(MaxLenCalls) /\ CallSet(p, k)
    \/ \E p \in Procs, k \in Keys : Budgeted(MaxLenCalls) /\ CallDelete(p, k)
    \/ \E p \in Procs :
          (Budgeted(MaxLenCalls) \/ inflight[p].op # "idle") /\ CallLen(p)
    \/ \E p \in Procs : PolicyLock(p)
    \/ \E p \in Procs : PolicyUnlock(p)
    \/ \E p \in Procs : UnlockShard(p)

SpecLen == LenInit /\ [][LenNext]_vars

(* Stats calls that overlap Gets, Sets and similarity searches on caches   *)
(* with statistics, while the clock advances                               *)
StatsConfigs ==
    ConfigsOf({1}, {MaxTotalSize}, {0}, {"none"}, {MaxTTL}, {TRUE})

StatsInit == InitWith(StatsConfigs)

StatsNext ==
    \/ /\ similarity = "nil"
       /\ \A p \in Procs : inflight[p].op = "idle"
       /\ WithSimilarity("near")
    \/ \E p \in Procs, k \in Keys : Budgeted(MaxCalls) /\ CallGet(p, k)
    \/ \E p \in Procs, k \in Keys : Budgeted(MaxCalls) /\ CallSet(p, k)
    \/ \E p \in Procs, k \in Queries : MayCall(p) /\ CallGetSimilar(p, k)
    \/ \E p \in Procs : MayCall(p) /\ CallStats(p)
    \/ \E p \in Procs : UnlockShard(p)
    \/ now < MaxTime /\ Tick

SpecStats == StatsInit /\ [][StatsNext]_vars

----------------------------------------------------------------------------
(* Vocabulary of the properties *)

(* this step is a call of op (for GetSimilar: one iteration of its loop) *)
Step(op) == last'.seq = last.seq + 1 /\ last'.op = op

ShardOf(key) == shards[getShard(key, options.NumShards)]

Stored(key) == key \in DOMAIN ShardOf(key).data

EntryOf(key) == ShardOf(key).data[key]

StoredKeys == {k \in Keys : Stored(k)}

HistDistinct ==
    \A i, j \in 1..Len(hist.sets) : i # j => hist.sets[i].key # hist.sets[j].key

(* the entries a GetSimilar(ctx, q) with namespace ns may return: stored,  *)
(* not expired, passing the namespace filter, scoring at least threshold   *)
Eligible(q, ns) ==
    {k \in StoredKeys :
        /\ ~IsExpired(EntryOf(k), now)
        /\ (ns = "" \/ EntryOf(k).Namespace = ns)
        /\ Score(similarity, q, k) >= options.SimilarityThreshold}

BestEligible(q, ns) ==
    {k \in Eligible(q, ns) :
        \A k2 \in Eligible(q, ns) : Score(similarity, q, k) >= Score(similarity, q, k2)}

(* k1 is met before k2 by a search: lower shard, then earlier in the list *)
Before(k1, k2) ==
    \/ getShard(k1, options.NumShards) < getShard(k2, options.NumShards)
    \/ /\ getShard(k1, options.NumShards) = getShard(k2, options.NumShards)
       /\ FirstIndex(ShardOf(k1).keys, k1) < FirstIndex(ShardOf(k2).keys, k2)

(* a GetSimilar returns in this step, not cancelled, no other step having  *)
(* run since it was called, with a similarity function bound               *)
QuietSearchReturns ==
    /\ Step("GetSimilar")
    /\ last'.done /\ ~last'.cancelled /\ last'.clean
    /\ similarity # "nil"

----------------------------------------------------------------------------
(* C1: round trip. A Get that directly follows a Set(ctx, K, V) that       *)
(* returned nil, with the same non-cancelled context and key and at the    *)
(* same clock reading, returns (V, true).                                  *)
C1_RoundTrip ==
    [][(/\ last.op = "Set" /\ last.ok
        /\ Step("Get") /\ ~last'.cancelled
        /\ last'.key = last.key /\ last'.ns = last.ns
        /\ last.time = now)
       => (last'.ok /\ last'.rval = last.val)]_vars

(* C2: from an empty cache, after Set(ctxA, x, "A") and Set(ctxB, x, "B")  *)
(* with distinct non-empty namespaces, Get(ctxA, x) returns ("A", true)    *)
(* and Get(ctxB, x) returns ("B", true).                                   *)
C2_ValuePerNamespace ==
    [][(/\ hist.valid /\ Len(hist.sets) = 2
        /\ hist.sets[1].key = hist.sets[2].key
        /\ hist.sets[1].ns # "" /\ hist.sets[2].ns # ""
        /\ hist.sets[1].ns # hist.sets[2].ns
        /\ Step("Get") /\ ~last'.cancelled /\ last'.key = hist.sets[1].key)
       => /\ (last'.ns = hist.sets[1].ns => last'.ok /\ last'.rval = hist.sets[1].val)
          /\ (last'.ns = hist.sets[2].ns => last'.ok /\ last'.rval = hist.sets[2].val)]_vars

(* C3: a Get under a non-empty namespace B of a key whose entry was        *)
(* created under another non-empty namespace A returns (zero, false),      *)
(* leaves the entry as it was (accessed_at, access_count) and makes no     *)
(* call on the eviction policy.                                            *)
C3_NamespaceIsolation ==
    [][\A k \in Keys :
        (/\ Step("Get") /\ ~last'.cancelled /\ last'.key = k
         /\ Stored(k)
         /\ EntryOf(k).Namespace # "" /\ last'.ns # ""
         /\ EntryOf(k).Namespace # last'.ns)
        => /\ ~last'.ok /\ last'.rval = ZeroV
           /\ shards'[getShard(k, options.NumShards)].data[k] = EntryOf(k)
           /\ last'.calls = <<>>
           /\ policy' = policy]_vars

C3_Witness ==
    /\ last.op = "Get" /\ ~last.cancelled /\ ~last.ok
    /\ last.ns = "b"
    /\ Stored(last.key) /\ EntryOf(last.key).Namespace = "a"
    /\ options.EvictionPolicy = "lru"

(* C4: after N > M Set calls with distinct keys on a cache of max_size M,  *)
(* Len() <= M.                                                             *)
C4_TotalCapacity ==
    (hist.valid /\ HistDistinct /\ Len(hist.sets) > options.MaxSize)
    => CacheLen <= options.MaxSize

(* C5: whenever no Set is in progress, every shard holds at most           *)
(* max_size_per_shard entries.                                             *)
C5_ShardCapacity ==
    \A i \in ShardIds : Cardinality(DOMAIN shards[i].data) <= maxSizePerShard(options)

(* C6: with one shard, an LRU policy and max_size M, after Set on N > M    *)
(* distinct keys in order and nothing else, Len() = M, Get returns each of *)
(* the last M keys with the value set, and each of the first N - M keys is *)
(* absent for every context.                                               *)
C6_LRURetention ==
    (/\ options.NumShards = 1 /\ options.EvictionPolicy = "lru"
     /\ hist.valid /\ HistDistinct /\ Len(hist.sets) > options.MaxSize)
    => /\ CacheLen = options.MaxSize
       /\ \A j \in 1..Len(hist.sets) :
            IF j > Len(hist.sets) - options.MaxSize
            THEN LET g == ShardGet(shards[0], policy, FALSE, hist.sets[j].ns,
                                   hist.sets[j].key, now)
                 IN  g.ok /\ g.val = hist.sets[j].val
            ELSE \A ns \in Namespaces :
                   ~ShardGet(shards[0], policy, FALSE, ns, hist.sets[j].key, now).ok

C6_Witness ==
    /\ options.NumShards = 1 /\ options.EvictionPolicy = "lru"
    /\ options.MaxSize = 2
    /\ hist.valid /\ HistDistinct /\ Len(hist.sets) = 3

(* C7: if some stored, non-expired, namespace-matching entry scores at     *)
(* least the threshold, a non-cancelled GetSimilar returns found = true    *)
(* and a key of maximal score among those entries.                         *)
C7_SimilaritySelection ==
    [][(QuietSearchReturns /\ Eligible(last'.key, last'.ns) # {})
       => (last'.ok /\ last'.rkey \in BestEligible(last'.key, last'.ns))]_vars

(* C8: when several eligible entries share the maximum score, GetSimilar   *)
(* returns the one met first: lowest shard index, then earliest in that    *)
(* shard's key list.                                                       *)
C8_TieBreak ==
    [][(QuietSearchReturns /\ Cardinality(BestEligible(last'.key, last'.ns)) >= 2)
       => /\ last'.ok
          /\ last'.rkey \in BestEligible(last'.key, last'.ns)
          /\ \A k \in BestEligible(last'.key, last'.ns) \ {last'.rkey} :
               Before(last'.rkey, k)]_vars

(* C9: every (v, k, score) that GetSimilar takes as its best, and so every *)
(* one it returns with found = true, was in the shard being scanned with   *)
(* value v, not expired, of the context's namespace unless that is empty,  *)
(* and score = sim(query, k) >= threshold.                                 *)
RunningBest == IF gs.active THEN gs.best ELSE ZeroBest

ScannedShard == IF gs.active THEN gs.idx ELSE 0

C9_Evidence(s, b, q, ns) ==
    /\ b.key \in DOMAIN s.data
    /\ s.data[b.key].Value = b.val
    /\ (s.data[b.key].ExpiresAt = ZeroTime \/ now <= s.data[b.key].ExpiresAt)
    /\ (ns = "" \/ s.data[b.key].Namespace = ns)
    /\ similarity # "nil"
    /\ b.score = Score(similarity, q, b.key)
    /\ b.score >= options.SimilarityThreshold

C9_SimilarSoundness ==
    [][Step("GetSimilar") =>
        LET b == IF gs'.active THEN gs'.best
                 ELSE [val |-> last'.rval, key |-> last'.rkey, score |-> last'.score,
                       found |-> last'.ok]
        IN  b.found =>
              \/ b = RunningBest
              \/ C9_Evidence(shards[ScannedShard], b, last'.key, last'.ns)]_vars

C9_Witness ==
    /\ last.op = "GetSimilar" /\ last.done /\ last.ok
    /\ last.ns = "a" /\ last.rkey # last.key
    /\ options.NumShards = 2

C11_PreCancelled ==
    [][(last'.seq = last.seq + 1 /\ last'.cancelled)
       => /\ ~last'.ok
          /\ last'.rval = ZeroV /\ last'.rkey = ZeroK /\ last'.score = 0
          /\ last'.op \in {"Set", "Delete"}
             => /\ shards' = shards
                /\ policy' = policy
                /\ CacheStats' = CacheStats
                /\ last'.calls = <<>>]_vars

C11_Witness ==
    /\ last.op = "Delete" /\ last.cancelled /\ ~last.ok
    /\ last.seq = MaxSeqOps
    /\ CacheLen = 2
    /\ options.EnableStats /\ options.EvictionPolicy = "lru"
    /\ CacheStats.deletes = 0

(* C12: when a poll of a running GetSimilar, inside a shard scan or        *)
(* between two shards, sees the context cancelled, the call ends there and *)
(* returns the zero value, the zero key, score 0 and found = false, not    *)
(* the best match of the shards already scanned.                           *)
C12_CancelledSearch ==
    [][(Step("GetSimilar") /\ last'.cancelled)
       => /\ last'.done /\ ~gs'.active
          /\ ~last'.ok
          /\ last'.rval = ZeroV /\ last'.rkey = ZeroK /\ last'.score = 0]_vars

(* a search cancelled in its second shard after a hit in its first *)
C12_Witness ==
    /\ last.op = "GetSimilar" /\ last.cancelled /\ last.done /\ ~last.ok
    /\ options.NumShards = 2
    /\ shards[0].stats.similarHits = 1
    /\ shards[1].stats.similarSearches = 1

(* C13: for a key K already present, Set(ctx, K, V1) followed by           *)
(* Set(ctx, K, V2) with the same non-cancelled ctx makes Get(ctx, K)       *)
(* return (V2, true), and the second Set leaves Len() unchanged.           *)
C13_Overwrite ==
    [][\A k \in Keys :
        LET n == Len(hist.sets)
            i == getShard(k, options.NumShards)
        IN  (/\ hist.valid /\ n >= 2
             /\ hist.sets[n - 1].key = k /\ hist.sets[n].key = k
             /\ Step("Set") /\ last'.ok
             /\ last'.key = k /\ last'.ns = hist.sets[n].ns)
            => /\ CacheLen' = CacheLen
               /\ ShardGet(shards'[i], policy', FALSE, last'.ns, k, now).ok
               /\ ShardGet(shards'[i], policy', FALSE, last'.ns, k, now).val = last'.val]_vars

(* C14: with a non-cancelled context Delete(K) returns true iff K is in    *)
(* its shard; a Delete that returns true removes K and leaves the          *)
(* presence, value and key-list order of every other key unchanged; a      *)
(* Delete of an absent key returns false and changes nothing, the stats    *)
(* included; and once K is gone Get(K) returns (zero, false) until a Set   *)
(* of K puts it back.                                                      *)
C14_Delete ==
    [][\A k \in Keys :
        LET i == getShard(k, options.NumShards)
        IN  /\ (Step("Delete") /\ ~last'.cancelled /\ last'.key = k)
               => /\ last'.ok <=> Stored(k)
                  /\ \A j \in ShardIds \ {i} : shards'[j] = shards[j]
                  /\ Stored(k)
                     => /\ k \notin DOMAIN shards'[i].data
                        /\ \A k2 \in DOMAIN shards[i].data \ {k} :
                             /\ k2 \in DOMAIN shards'[i].data
                             /\ shards'[i].data[k2] = shards[i].data[k2]
                        /\ shards'[i].keys = SelectSeq(shards[i].keys, LAMBDA x : x # k)
                  /\ ~Stored(k)
                     => /\ shards' = shards /\ policy' = policy
                        /\ CacheStats' = CacheStats
            /\ (Step("Get") /\ ~last'.cancelled /\ last'.key = k /\ ~Stored(k))
               => (~last'.ok /\ last'.rval = ZeroV)
            /\ (~Stored(k) /\ k \in DOMAIN shards'[i].data)
               => (Step("Set") /\ last'.ok /\ last'.key = k)]_vars

(* a Delete returned true and another key is still stored *)
C14_Witness ==
    /\ last.op = "Delete" /\ ~last.cancelled /\ last.ok
    /\ ~Stored(last.key)
    /\ CacheLen = 1
    /\ CacheStats.deletes = 1

(* C15: with stats enabled, at all times                                   *)
(* Stats().Sets - Stats().Deletes - Stats().Evictions >= Len(), and        *)
(* Len() >= 0.                                                             *)
C15_EvictionAccounting ==
    options.EnableStats
    => /\ CacheStats.sets - CacheStats.deletes - CacheStats.evictions >= CacheLen
       /\ CacheLen >= 0

(* C16: in a cache built with stats disabled, after any sequence of Set,   *)
(* Get, GetSimilar and Delete calls, each of the eight fields of Stats()   *)
(* is 0; no shard keeps a counter either.                                  *)
C16_StatsDisabled ==
    ~options.EnableStats
    => /\ \A f \in DOMAIN ZeroStats : CacheStats[f] = 0
       /\ DOMAIN CacheStats = {"hits", "misses", "sets", "deletes", "similarSearches",
                               "similarHits", "evictions", "expired"}
       /\ \A i \in ShardIds : \A f \in DOMAIN ZeroStats : shards[i].stats[f] = 0

(* stats disabled, after two Sets and a similarity hit *)
C16_Witness ==
    /\ ~options.EnableStats
    /\ last.op = "GetSimilar" /\ last.done /\ last.ok
    /\ last.seq >= MaxSeqOps
    /\ CacheLen = 2

(* C17: with stats enabled and calls run one after another, Sets counts    *)
(* the Set calls that returned nil, Hits the Get calls that returned       *)
(* found, Misses the non-cancelled Get calls that returned not found,      *)
(* Deletes the Delete calls that returned true, and Evictions the entries  *)
(* removed by eviction.  Stated per call: each call adds to each counter   *)
(* exactly what it contributes to that count.                              *)
Delta(f) == CacheStats'[f] - CacheStats[f]

Bit(b) == IF b THEN 1 ELSE 0

(* entries a successful Set of last'.key removed from the cache *)
RemovedBySet == CacheLen + Bit(~Stored(last'.key)) - CacheLen'

C17_StatsCounting ==
    [][(options.EnableStats /\ last'.seq = last.seq + 1)
       => /\ Delta("sets") = Bit(last'.op = "Set" /\ last'.ok)
          /\ Delta("hits") = Bit(last'.op = "Get" /\ last'.ok)
          /\ Delta("misses") = Bit(last'.op = "Get" /\ ~last'.cancelled /\ ~last'.ok)
          /\ Delta("deletes") = Bit(last'.op = "Delete" /\ last'.ok)
          /\ Delta("evictions") = IF last'.op = "Set" /\ last'.ok THEN RemovedBySet ELSE 0]_vars

(* C18: when the attached policy returns no victim for a full shard, the   *)
(* Set of a new key still returns nil, the shard's entry count goes at     *)
(* most one over its max_size, and the next Set of a new key on the shard  *)
(* attempts eviction again (every Set of a new key on a full shard calls   *)
(* SelectVictim).                                                          *)
C18_TransientOverflow ==
    [][\A k \in Keys :
        LET i == getShard(k, options.NumShards)
        IN  (/\ Step("Set") /\ ~last'.cancelled /\ last'.key = k
             /\ ~Stored(k)
             /\ policy.kind # "none"
             /\ Cardinality(DOMAIN shards[i].data) >= maxSizePerShard(options))
            => /\ last'.calls # <<>>
               /\ last'.calls[1].fn = "SelectVictim"
               /\ (\A c \in 1..Len(last'.calls) : last'.calls[c].fn # "OnRemove")
                  => /\ last'.ok
                     /\ Cardinality(DOMAIN shards'[i].data) <= maxSizePerShard(options) + 1]_vars

(* C19: without an eviction policy, a Set of a new key on a shard that     *)
(* holds max_size_per_shard entries removes exactly one entry, the head of *)
(* the shard's key list, which is the earliest-created entry still         *)
(* present, whatever was read or overwritten before, and records one       *)
(* eviction.                                                               *)
C19_FifoFallback ==
    [][\A k \in Keys :
        LET i    == getShard(k, options.NumShards)
            s    == shards[i]
            head == s.keys[1]
        IN  (/\ Step("Set") /\ ~last'.cancelled /\ last'.key = k
             /\ ~Stored(k)
             /\ policy.kind = "none"
             /\ Cardinality(DOMAIN s.data) = maxSizePerShard(options))
            => /\ last'.ok
               /\ \A k2 \in DOMAIN s.data : s.data[head].CreatedAt <= s.data[k2].CreatedAt
               /\ DOMAIN shards'[i].data = (DOMAIN s.data \ {head}) \cup {k}
               /\ \A k2 \in DOMAIN s.data \ {head} : shards'[i].data[k2] = s.data[k2]
               /\ shards'[i].keys = Append(Tail(s.keys), k)
               /\ shards'[i].stats.evictions = s.stats.evictions + 1
               /\ CacheStats'.evictions = CacheStats.evictions + 1
               /\ \A j \in ShardIds \ {i} : shards'[j] = shards[j]]_vars

(* the evicted head was the key read last: no stored entry was ever read *)
C19_Witness ==
    /\ last.op = "Set" /\ last.ok /\ last.seq = MaxFifoOps
    /\ options.NumShards = 1
    /\ CacheStats.evictions = 1 /\ CacheStats.hits = 1 /\ CacheStats.deletes = 0
    /\ CacheStats.sets = 3
    /\ CacheLen = 2
    /\ \A k \in StoredKeys : EntryOf(k).AccessCount = 0

(* C20: in a cache on which WithSimilarity was never called, GetSimilar    *)
(* returns found = false for every query, threshold and cache state,       *)
(* touches no entry and notifies no policy.                                *)
C20_NoSimilarityFunction ==
    [][(Step("GetSimilar") /\ similarity = "nil")
       => /\ ~last'.ok
          /\ last'.rval = ZeroV /\ last'.rkey = ZeroK /\ last'.score = 0
          /\ ~gs'.best.found
          /\ \A i \in ShardIds :
               /\ shards'[i].data = shards[i].data
               /\ shards'[i].keys = shards[i].keys
               /\ shards'[i].stats.similarHits = shards[i].stats.similarHits
          /\ policy' = policy
          /\ last'.calls = <<>>]_vars

(* a search that ran to its end over two stored entries with no function bound *)
C20_Witness ==
    /\ similarity = "nil"
    /\ last.op = "GetSimilar" /\ last.done /\ ~last.cancelled /\ ~last.ok
    /\ options.SimilarityThreshold = 0
    /\ CacheLen = 2
    /\ CacheStats.similarSearches = options.NumShards
    /\ options.NumShards = 2

(* C21: context metadata is copy-on-write.  WithMetadata(ctx, k, v) makes  *)
(* a new carrier for which GetMetadata returns (v, true) for k and what    *)
(* ctx returns for every other key; every carrier that existed before any  *)
(* step, a cache operation included, keeps its namespace and the result    *)
(* of GetMetadata for every key.                                           *)
C21_MetadataCopyOnWrite ==
    [][/\ \A c \in Carriers :
            /\ GetNamespace(ctxs', c) = GetNamespace(ctxs, c)
            /\ \A k \in MetaKeys : GetMetadata(ctxs', c, k) = GetMetadata(ctxs, c, k)
       /\ (/\ Len(ctxs'.nodes) = Len(ctxs.nodes) + 1
           /\ ctxs'.nodes[Len(ctxs'.nodes)].kind = "metadataKey")
          => LET n == Len(ctxs'.nodes)
                 new == ctxs'.nodes[n]
             IN /\ GetMetadata(ctxs', n, new.mkey) = [val |-> new.mval, ok |-> TRUE]
                /\ GetNamespace(ctxs', n) = GetNamespace(ctxs, new.parent)
                /\ \A k \in MetaKeys \ {new.mkey} :
                       GetMetadata(ctxs', n, k) = GetMetadata(ctxs, new.parent, k)]_vars

(* two carriers were derived from carrier 1, the later one overriding a    *)
(* key of carrier 1, and the cache was then called with the later one      *)
C21_Witness ==
    /\ Len(ctxs.nodes) = 3
    /\ ctxs.nodes[2].parent = 1 /\ ctxs.nodes[3].parent = 1
    /\ GetMetadata(ctxs, 1, "x") = [val |-> "A", ok |-> TRUE]
    /\ GetMetadata(ctxs, 2, "y") = [val |-> "B", ok |-> TRUE]
    /\ GetMetadata(ctxs, 2, "x") = [val |-> "A", ok |-> TRUE]
    /\ GetMetadata(ctxs, 3, "x") = [val |-> "B", ok |-> TRUE]
    /\ GetMetadata(ctxs, 3, "y") = [val |-> ZeroV, ok |-> FALSE]
    /\ last.op = "Set" /\ last.ok

(* C22: TTL sweeper shutdown.  Once Close() has been called on a TTL       *)
(* policy created with ttl > 0 the cleanup loop eventually exits; once it  *)
(* has exited it stays exited, and a step that is not a call on the cache  *)
(* leaves the policy's tracking map as it was: no sweep removes a key.     *)
C22_SweeperShutdown ==
    /\ sweeper.closed ~> ~sweeper.running
    /\ [][(sweeper.closed /\ ~sweeper.running)
          => (~sweeper'.running /\ (last' = last => policy'.items = policy.items))]_vars

(* the loop has exited after Close while the policy tracks a key whose     *)
(* time has passed: a sweep would have removed it                          *)
C22_Witness ==
    /\ sweeper.closed /\ ~sweeper.running
    /\ \E k \in DOMAIN policy.items : now > policy.items[k]

(* C23: shard structure.  In every state between two calls each shard's    *)
(* key list holds exactly the keys of its data map, each once, and         *)
(* data[K].Key = K; the keys that survive a step keep their relative       *)
(* order in the list, and a key created by the step is the last one.       *)
C23_ShardStructure ==
    /\ [](\A i \in DOMAIN shards :
            /\ {shards[i].keys[j] : j \in 1..Len(shards[i].keys)} = DOMAIN shards[i].data
            /\ Len(shards[i].keys) = Cardinality(DOMAIN shards[i].data)
            /\ \A k \in DOMAIN shards[i].data : shards[i].data[k].Key = k)
    /\ [][\A i \in DOMAIN shards :
            /\ \A k1, k2 \in (DOMAIN shards[i].data) \cap (DOMAIN shards'[i].data) :
                  (FirstIndex(shards[i].keys, k1) < FirstIndex(shards[i].keys, k2))
                  => (FirstIndex(shards'[i].keys, k1) < FirstIndex(shards'[i].keys, k2))
            /\ \A k \in (DOMAIN shards'[i].data) \ (DOMAIN shards[i].data) :
                  shards'[i].keys[Len(shards'[i].keys)] = k]_vars

(* the middle one of three keys was evicted by a Set after the oldest one  *)
(* was read: the list holds the oldest and the newest, in that order       *)
C23_Witness ==
    /\ options.NumShards = 1
    /\ shards[0].keys = <<0, 2>>
    /\ last.op = "Set" /\ last.ok /\ last.key = 2
    /\ \E j \in 1..Len(last.calls) : last.calls[j] = Call("OnRemove", 1)
    /\ shards[0].data[0].AccessCount = 1

(* the eviction policy tracks key *)
Tracked(key) ==
    IF policy.kind = "ttl" THEN key \in DOMAIN policy.items ELSE InSeq(policy.list, key)

(* C24: policy tracking.  When an eviction policy is attached, in every    *)
(* state between two calls the policy tracks every key stored in every     *)
(* shard.                                                                  *)
C24_PolicyTracking ==
    policy.kind # "none" => \A k \in StoredKeys : Tracked(k)

(* the orders in which n calls can be run one after the other *)
Perms(n) == {f \in [1..n -> 1..n] : \A i, j \in 1..n : f[i] = f[j] => i = j}

(* running the Gets ops[f[i]], ops[f[i+1]], ... one after the other on the *)
(* shards sh returns what each of them returned and ends in the contents   *)
(* of target: keys, values, key-list order and every field of every entry  *)
RECURSIVE SerialMatches(_, _, _, _, _)
SerialMatches(sh, ops, f, i, target) ==
    IF i > Len(ops)
    THEN \A j \in DOMAIN sh : sh[j].data = target[j].data /\ sh[j].keys = target[j].keys
    ELSE LET op == ops[f[i]]
             j == getShard(op.key, options.NumShards)
             r == ShardGet(sh[j], NewPolicy("none"), FALSE, op.ns, op.key, now)
         IN /\ r.ok = op.ok
            /\ r.val = op.val
            /\ SerialMatches([sh EXCEPT ![j] = r.s], ops, f, i + 1, target)

(* C25: per-shard serializability.  When the last of a group of Gets that  *)
(* overlapped under a shard's read lock returns, the values the Gets       *)
(* returned and the contents of the shards are those of running the Gets   *)
(* one after the other, in some order, from the state the group started in.*)
C25_Serializability ==
    [][(group' # group /\ \A p \in Procs : readers'[p].pc = "idle")
       => \E f \in Perms(Len(group'.ops)) :
              SerialMatches(group'.snap, group'.ops, f, 1, shards')]_vars

(* C26: access counter exactness.  In every step the access_count of an    *)
(* entry that stays in its shard grows by one if the step is the return of *)
(* a Get that hit it or an overwriting Set of it, and does not change      *)
(* otherwise; so it equals the number of touches and never decreases.      *)
C26_AccessCountExact ==
    [][\A k \in Keys :
         (Stored(k) /\ k \in DOMAIN shards'[getShard(k, options.NumShards)].data)
         => shards'[getShard(k, options.NumShards)].data[k].AccessCount
              = EntryOf(k).AccessCount
                + Bit(/\ last'.seq = last.seq + 1 /\ last'.op \in {"Get", "Set"}
                      /\ last'.ok /\ ~last'.cancelled /\ last'.key = k)]_vars

(* key is tracked after the first i calls of log *)
TrackedAt(log, i, key) ==
    \E j \in 1..i :
        /\ log[j] = Call("OnAdd", key)
        /\ \A m \in (j + 1)..i : log[m] # Call("OnRemove", key)

(* the calls of log that made key the most recently used one *)
Uses(log, key) ==
    {i \in 1..Len(log) :
        \/ log[i] = Call("OnAdd", key)
        \/ log[i] = Call("OnAccess", key) /\ TrackedAt(log, i - 1, key)}

LastUse(log, key) == CHOOSE i \in Uses(log, key) : \A j \in Uses(log, key) : j <= i

TrackedKeys(log) == {k \in Keys : TrackedAt(log, Len(log), k)}

(* C27: the LRU policy.  After any sequence of OnAdd, OnAccess and         *)
(* OnRemove calls the list holds each tracked key once and nothing else;   *)
(* SelectVictim returns (k, true) for the tracked key k whose latest OnAdd *)
(* or OnAccess is oldest and (nil, false) when no key is tracked, and it   *)
(* changes nothing; OnAccess and OnRemove of an untracked key change       *)
(* nothing.                                                                *)
C27_LRUAlgorithm ==
    /\ [](/\ {policy.list[i] : i \in 1..Len(policy.list)} = TrackedKeys(last.calls)
          /\ Len(policy.list) = Cardinality(TrackedKeys(last.calls))
          /\ LRULen(policy.list) = Cardinality(TrackedKeys(last.calls))
          /\ IF TrackedKeys(last.calls) = {}
             THEN LRUSelectVictim(policy.list) = [key |-> NilKey, ok |-> FALSE]
             ELSE /\ LRUSelectVictim(policy.list).ok
                  /\ LRUSelectVictim(policy.list).key \in TrackedKeys(last.calls)
                  /\ \A k \in TrackedKeys(last.calls) :
                         LastUse(last.calls, LRUSelectVictim(policy.list).key)
                           <= LastUse(last.calls, k))
    /\ [][/\ \A k \in Keys \ TrackedKeys(last.calls) :
               (Step("OnAccess") \/ Step("OnRemove")) /\ last'.key = k => policy' = policy
          /\ last'.op = "SelectVictim"
             => /\ policy' = policy
                /\ last'.ok = (TrackedKeys(last.calls) # {})
                /\ last'.ok => \A k \in TrackedKeys(last.calls) :
                                   LastUse(last.calls, last'.rkey) <= LastUse(last.calls, k)
                /\ ~last'.ok => last'.rkey = NilKey]_vars

(* three keys were added, the oldest was accessed and the second removed:  *)
(* SelectVictim returned the third                                         *)
C27_Witness ==
    /\ last.op = "SelectVictim" /\ last.ok /\ last.rkey = 2
    /\ last.calls = <<Call("OnAdd", 0), Call("OnAdd", 1), Call("OnAdd", 2),
                      Call("OnAccess", 0), Call("OnRemove", 1)>>
    /\ policy.list = <<0, 2>>

(* the entries of shard 0 that the step removes *)
Evicted == (DOMAIN shards[0].data) \ (DOMAIN shards'[0].data)

(* C28: hits refresh recency.  With one shard and an LRU policy, a Set of  *)
(* a new key on a full shard removes one entry; no other entry was used    *)
(* (created, overwritten, returned by Get or selected by GetSimilar) at an *)
(* earlier time, and the entry that the previous call created, overwrote   *)
(* or returned is not the one removed while another entry exists.          *)
C28_HitsRefreshRecency ==
    [][(/\ options.NumShards = 1 /\ options.EvictionPolicy = "lru"
        /\ Step("Set") /\ last'.ok /\ ~Stored(last'.key)
        /\ Len(shards[0].keys) >= maxSizePerShard(options))
       => /\ Cardinality(Evicted) = 1
          /\ \A r \in Evicted :
               /\ \A k \in DOMAIN shards[0].data :
                      shards[0].data[r].AccessedAt <= shards[0].data[k].AccessedAt
               /\ Cardinality(DOMAIN shards[0].data) > 1
                  => /\ (last.op \in {"Get", "Set"} /\ last.ok) => r # last.key
                     /\ (last.op = "GetSimilar" /\ last.ok) => r # last.rkey]_vars

(* the older of two entries was returned by a Get or a search after the    *)
(* clock had advanced, and the later Set of a third key removed the        *)
(* younger one                                                             *)
C28_Witness ==
    /\ options.NumShards = 1 /\ options.EvictionPolicy = "lru"
    /\ similarity # "nil"
    /\ last.op = "Set" /\ last.ok /\ last.key = 2 /\ last.seq = MaxFifoOps
    /\ shards[0].keys = <<0, 2>>
    /\ shards[0].data[0].AccessCount = 1
    /\ shards[0].data[0].AccessedAt > shards[0].data[0].CreatedAt
    /\ shards[0].data[2].CreatedAt > shards[0].data[0].AccessedAt

(* key's entry has an expiry and the clock is past it *)
PastExpiry(key) == EntryOf(key).ExpiresAt # ZeroTime /\ now > EntryOf(key).ExpiresAt

(* C29: no unexpire.  No step changes the expires_at of an entry that      *)
(* stays in its shard, an overwriting Set included, so an expired entry    *)
(* stays expired until it is removed; a Get of an expired entry returns    *)
(* (zero, false), and a GetSimilar never returns one.                      *)
C29_NoUnexpire ==
    [][/\ \A k \in Keys :
            (Stored(k) /\ k \in DOMAIN shards'[getShard(k, options.NumShards)].data)
            => /\ shards'[getShard(k, options.NumShards)].data[k].ExpiresAt
                    = EntryOf(k).ExpiresAt
               /\ PastExpiry(k) => PastExpiry(k)'
       /\ (Step("Get") /\ Stored(last'.key) /\ PastExpiry(last'.key))
          => (~last'.ok /\ last'.rval = ZeroV)
       /\ (Step("GetSimilar") /\ last'.done /\ last'.clean /\ last'.ok)
          => (Stored(last'.rkey) /\ ~PastExpiry(last'.rkey))]_vars

(* an entry was overwritten by a Set after it had expired, and the Get     *)
(* that followed returned (zero, false)                                    *)
C29_Witness ==
    /\ last.op = "Get" /\ ~last.ok /\ ~last.cancelled
    /\ Stored(last.key) /\ PastExpiry(last.key)
    /\ EntryOf(last.key).AccessedAt > EntryOf(last.key).ExpiresAt
    /\ EntryOf(last.key).AccessCount = 1

(* the keys the policy tracks *)
TrackedSet == {k \in Keys : Tracked(k)}

Candidates(q) ==
    {k \in StoredKeys :
        /\ ~PastExpiry(k)
        /\ Score(similarity, q, k) >= options.SimilarityThreshold
        /\ Score(similarity, q, k) > 0}

(* C31: the global context sees every namespace.  A Get of a stored, live  *)
(* entry misses exactly when the context's namespace is non-empty and      *)
(* differs from the entry's; a GetSimilar under the empty namespace finds  *)
(* a best entry among those of all namespaces, and a GetSimilar under a    *)
(* non-empty namespace returns entries of that namespace only.             *)
C31_GlobalContext ==
    [][/\ \A k \in Keys :
            (Step("Get") /\ ~last'.cancelled /\ last'.key = k
             /\ Stored(k) /\ ~PastExpiry(k))
            => /\ last'.ok <=> (last'.ns = "" \/ EntryOf(k).Namespace = last'.ns)
               /\ last'.ok => last'.rval = EntryOf(k).Value
       /\ QuietSearchReturns
          => /\ (last'.ns = "" /\ Candidates(last'.key) # {})
                => /\ last'.ok
                   /\ last'.rkey \in Candidates(last'.key)
                   /\ \A k \in Candidates(last'.key) :
                          Score(similarity, last'.key, last'.rkey)
                            >= Score(similarity, last'.key, k)
             /\ (last'.ok /\ last'.ns # "")
                => EntryOf(last'.rkey).Namespace = last'.ns]_vars

(* a GetSimilar with the empty namespace returned an entry created under   *)
(* namespace "a"                                                           *)
C31_Witness ==
    /\ last.op = "GetSimilar" /\ last.done /\ last.ok /\ ~last.cancelled
    /\ last.ns = ""
    /\ Stored(last.rkey) /\ EntryOf(last.rkey).Namespace = "a"
    /\ EntryOf(last.rkey).AccessCount = 1

TouchedNow ==
    {k \in StoredKeys :
        \/ k \notin DOMAIN shards'[getShard(k, options.NumShards)].data
        \/ shards'[getShard(k, options.NumShards)].data[k].AccessCount
             # EntryOf(k).AccessCount}

(* the entry that the scan of an earlier shard selected, and touched *)
TouchedBefore == IF gs.active /\ gs.best.found THEN {gs.best.key} ELSE {}

(* C33: a similarity search touches only what it returns.  When a          *)
(* non-cancelled GetSimilar returns, the entries it touched, in this scan  *)
(* or in the scan of an earlier shard, are the entry it returns and no     *)
(* other, and none when it returns found = false.                          *)
C33_SearchTouchesResult ==
    [][(Step("GetSimilar") /\ last'.done /\ ~last'.cancelled)
       => IF last'.ok
          THEN TouchedNow \cup TouchedBefore = {last'.rkey}
          ELSE TouchedNow \cup TouchedBefore = {}]_vars

(* the entries that the step removes from the shard of the key it is about *)
RemovedFromShard ==
    (DOMAIN shards[getShard(last'.key, options.NumShards)].data)
        \ (DOMAIN shards'[getShard(last'.key, options.NumShards)].data)

(* C34: eviction makes room in the full shard.  The victim for which a Set *)
(* calls OnRemove is an entry of the shard of the new key, and is removed  *)
(* from that shard's data and key list; the eviction counter moves exactly *)
(* when the Set removed an entry.                                          *)
C34_EvictionMakesRoom ==
    [][(Step("Set") /\ last'.ok)
       => /\ \A v \in Keys :
               (\E c \in 1..Len(last'.calls) : last'.calls[c] = Call("OnRemove", v))
               => /\ v \in DOMAIN shards[getShard(last'.key, options.NumShards)].data
                  /\ RemovedFromShard = {v}
                  /\ ~InSeq(shards'[getShard(last'.key, options.NumShards)].keys, v)
          /\ options.EnableStats
             => Delta("evictions") = Bit(RemovedFromShard # {})]_vars

(* C39: reads never change membership.  A Get or a GetSimilar leaves the   *)
(* key set of every shard's data map and every shard's key list as they    *)
(* were, so Len() is the same before and after: an expired entry stays in  *)
(* its shard and keeps its place.                                          *)
C39_ReadsKeepMembership ==
    [][(Step("Get") \/ Step("GetSimilar"))
       => /\ \A i \in ShardIds :
               /\ DOMAIN shards'[i].data = DOMAIN shards[i].data
               /\ shards'[i].keys = shards[i].keys
          /\ CacheLen' = CacheLen]_vars

(* a Get missed on an expired entry that is still stored, in a shard that  *)
(* is full                                                                 *)
C39_Witness ==
    /\ last.op = "Get" /\ ~last.ok
    /\ Stored(last.key) /\ PastExpiry(last.key)
    /\ Len(ShardOf(last.key).keys) = maxSizePerShard(options)
    /\ CacheLen = options.MaxSize

(* C37: TTL policy victim selection.  The keys the policy holds are those  *)
(* added by OnAdd and not yet removed by OnRemove, each with the expiry    *)
(* created_at + ttl; SelectVictim returns (k, true) only for such a key    *)
(* whose expiry is before the current time, and returns one iff there is   *)
(* one; a key whose expiry has passed stays selectable until OnRemove or   *)
(* a new OnAdd is called for it.                                           *)
C37_TTLVictimSelection ==
    /\ [](/\ DOMAIN policy.items = TrackedKeys(last.calls)
          /\ \A v \in PolicySelectVictim(policy, now) :
                v.ok => (v.key \in TrackedKeys(last.calls) /\ now > policy.items[v.key])
          /\ (\E k \in DOMAIN policy.items : now > policy.items[k])
             <=> (\E v \in PolicySelectVictim(policy, now) : v.ok))
    /\ [][/\ Step("OnAdd") => policy'.items[last'.key] = now + policy.ttl
          /\ \A k \in DOMAIN policy.items :
                (/\ now > policy.items[k]
                 /\ ~((Step("OnRemove") \/ Step("OnAdd")) /\ last'.key = k))
                => [key |-> k, ok |-> TRUE] \in PolicySelectVictim(policy', now')]_vars


(* the policy p after the callbacks of the log calls, made at time t *)
RECURSIVE LeafApply(_, _, _)
LeafApply(p, calls, t) ==
    IF Len(calls) = 0 THEN p
    ELSE LeafApply(IF Head(calls).fn = "OnAccess" THEN LeafOnAccess(p, Head(calls).key, t)
                   ELSE IF Head(calls).fn = "OnAdd" THEN LeafOnAdd(p, Head(calls).key, t)
                   ELSE IF Head(calls).fn = "OnRemove" THEN LeafOnRemove(p, Head(calls).key)
                   ELSE p,
                   Tail(calls), t)

(* sub-policy p tracks key *)
SubTracks(p, key) ==
    IF p.kind = "lru" THEN InSeq(p.list, key) ELSE key \in DOMAIN p.items

(* C38: a CombinedPolicy forwards every OnAccess, OnAdd and OnRemove to    *)
(* each of its sub-policies with the same arguments, whether the call is   *)
(* made on the policy itself or by a Get, Set or Delete of the cache;      *)
(* SelectVictim and Len give the result of sub-policy 0 whatever the       *)
(* weights, and (nil, false) and 0 for an empty list; the victim a Set     *)
(* evicts is afterwards tracked by no sub-policy.                          *)
C38_CombinedDelegation ==
    /\ [](PolicyLen(policy) = IF Len(policy.subs) = 0 THEN 0
                              ELSE LeafLen(policy.subs[1]))
    /\ [][/\ \A fn \in {"OnAccess", "OnAdd", "OnRemove"} :
                Step(fn) =>
                  /\ DOMAIN policy'.subs = DOMAIN policy.subs
                  /\ \A i \in DOMAIN policy.subs :
                        policy'.subs[i]
                          = LeafApply(policy.subs[i], <<Call(fn, last'.key)>>, now)
          /\ (Step("Get") \/ Step("Set") \/ Step("Delete")) =>
               /\ DOMAIN policy'.subs = DOMAIN policy.subs
               /\ \A i \in DOMAIN policy.subs :
                     policy'.subs[i] = LeafApply(policy.subs[i], last'.calls, now)
          /\ (last'.op = "SelectVictim" /\ last' # last) =>
               [key |-> last'.rkey, ok |-> last'.ok]
                 \in (IF Len(policy.subs) = 0 THEN {[key |-> NilKey, ok |-> FALSE]}
                      ELSE LeafSelectVictim(policy.subs[1], now))
          /\ Step("Set") =>
               \A j \in DOMAIN last'.calls :
                  (last'.calls[j].fn = "OnRemove" /\ last'.calls[j].key # last'.key)
                  => \A i \in DOMAIN policy'.subs :
                        ~SubTracks(policy'.subs[i], last'.calls[j].key)
          /\ policy'.weights = policy.weights]_vars

(* a Set on a cache with two sub-policies, weighted 1 to 3, evicted the    *)
(* victim of sub-policy 0 and both sub-policies track the new key          *)
C38_Witness ==
    /\ last.op = "Set" /\ last.ok
    /\ Len(policy.subs) = 2
    /\ policy.weights = <<25, 75>>
    /\ \E j \in DOMAIN last.calls :
          /\ last.calls[j].fn = "OnRemove"
          /\ last.calls[j].key # last.key
          /\ ~Stored(last.calls[j].key)
    /\ \A i \in 1..2 : SubTracks(policy.subs[i], last.key)


(* C36: a goroutine takes the lock of a shard only while it holds no lock  *)
(* at all, holds the policy's mutex only under the lock of one shard and   *)
(* gives it back before that lock, and the locks exclude as an RWMutex     *)
(* does; a goroutine in no call holds no lock, and under a scheduler that  *)
(* lets every goroutine run every Get, Set, Delete, GetSimilar, Len and    *)
(* Stats call that has begun returns.                                      *)
C36_DeadlockFreedom ==
    /\ [](\A p \in Procs :
            /\ inflight[p].pmode # "" => inflight[p].shard # NoShard
            /\ inflight[p].op = "idle" =>
                 (inflight[p].shard = NoShard /\ inflight[p].pmode = ""
                    /\ inflight[p].todo = <<>>)
            /\ \A q \in Procs \ {p} :
                  /\ (inflight[p].shard # NoShard /\ inflight[p].mode = "w")
                        => inflight[q].shard # inflight[p].shard
                  /\ inflight[p].pmode = "w" => inflight[q].pmode = "")
    /\ [][\A p \in Procs :
            inflight'[p].shard # inflight[p].shard =>
               /\ inflight[p].pmode = "" /\ inflight'[p].pmode = ""
               /\ inflight[p].shard = NoShard \/ inflight'[p].shard = NoShard]_vars
    /\ \A p \in Procs : (inflight[p].op # "idle") ~> (inflight[p].op = "idle")

(* a Set holds the write lock of its shard and the policy's mutex while a  *)
(* call on another shard, under that shard's lock, waits for the mutex     *)
C36_Witness ==
    \E p, q \in Procs :
       /\ inflight[p].op = "Set" /\ inflight[p].mode = "w" /\ inflight[p].pmode = "w"
       /\ inflight[q].shard # NoShard /\ inflight[q].shard # inflight[p].shard
       /\ inflight[q].todo # <<>> /\ inflight[q].pmode = ""


(* C35: a Len that no Set or Delete overlapped returns the sum of the      *)
(* sizes of the shards, which is the total the cache holds all through the *)
(* call; a Len reads a shard only under that shard's read lock, which      *)
(* keeps writers out of that shard alone.  With overlapping writers the    *)
(* returned total need not be one the cache held (C35_Witness).            *)
C35_LenNotAtomic ==
    /\ [](\A p, q \in Procs :
            (inflight[p].op = "Len" /\ inflight[p].shard # NoShard) =>
               /\ inflight[p].mode = "r"
               /\ inflight[q].mode = "w" => inflight[q].shard # inflight[p].shard)
    /\ [][\A p \in Procs :
            (inflight[p].op = "Len" /\ inflight'[p].op = "idle" /\ inflight[p].quiet) =>
               /\ inflight'[p].acc = CacheLen
               /\ inflight'[p].held = {CacheLen}]_vars

(* a Len overlapped by a Delete on one shard and a Set on the other        *)
(* returned a total the cache did not hold at any instant of the call      *)
C35_Witness ==
    \E p \in Procs :
       /\ inflight[p].ret = "Len" /\ inflight[p].op = "idle"
       /\ ~inflight[p].quiet
       /\ inflight[p].acc \notin inflight[p].held


(* C40: every Stats() result, also one taken while Gets and similarity     *)
(* searches run, has Expired <= Misses and SimilarHits <= SimilarSearches. *)
C40_StatsSnapshotConsistent ==
    \A p \in Procs :
       (inflight[p].ret = "Stats" /\ inflight[p].op = "idle") =>
          /\ inflight[p].stats.expired <= inflight[p].stats.misses
          /\ inflight[p].stats.similarHits <= inflight[p].stats.similarSearches

====
